---- MODULE Spec2Model ----
(***************************************************************************)
(* RailTrack decision pipeline: ObstacleTracker, MultiFrameConfirmation,   *)
(* FalseAlertFilter, TrackSegmentation.classify_zone, DistanceEstimator,   *)
(* CollisionRiskAssessor, SeverityClassifier, IncidentReporter,            *)
(* AlertManager.send_alert, IncidentLogger.log_incident and                *)
(* RailTrackSystem.process_frame / run.                                    *)
(*                                                                         *)
(* Conventions                                                             *)
(*   - a detection is [class, confidence, bbox]; confidence is in percent, *)
(*     bbox is <<x1, y1, x2, y2>> in integer pixels;                       *)
(*   - a bbox centre ((x1+x2)/2, (y1+y2)/2) is kept doubled (x1+x2, y1+y2) *)
(*     so that it stays an integer; a distance test  d < t  on centres is  *)
(*     the test  (2d)^2 < (2t)^2  on doubled centres;                      *)
(*   - wall-clock time (time.time()) is the variable now, in seconds;      *)
(*   - a time-to-collision is kept in hundredths of a second (the code     *)
(*     rounds it to two decimals), +infinity is the value Inf.             *)
(***************************************************************************)
EXTENDS Integers, Sequences, FiniteSets, TLC

\* ------------------------------------------------------------------------
\* Bounds of the model
\* ------------------------------------------------------------------------
MaxIds == 2

MaxFrames == 6

MaxMfcCalls == 14

MaxDupCalls == 4

\* ------------------------------------------------------------------------
\* Program constants
\* ------------------------------------------------------------------------
max_disappeared == 5

min_consecutive_frames == 5

max_frame_gap == 3

movement_threshold == 50

GatingDistance == 100

\* ------------------------------------------------------------------------
\* Generic helpers
\* ------------------------------------------------------------------------
None == -1

Put(f, k, v) == [x \in (DOMAIN f) \cup {k} |-> IF x = k THEN v ELSE f[x]]

Drop(f, k) == [x \in (DOMAIN f) \ {k} |-> f[x]]

MinOf(S) == CHOOSE x \in S : \A y \in S : x <= y

RECURSIVE Keys(_)
\* keys of a dict in insertion order; ids are inserted in increasing order
Keys(S) == IF S = {} THEN <<>> ELSE <<MinOf(S)>> \o Keys(S \ {MinOf(S)})

RemoveFirst(s, x) ==
    LET i == MinOf({j \in 1..Len(s) : s[j] = x})
    IN  SubSeq(s, 1, i - 1) \o SubSeq(s, i + 1, Len(s))

Range(s) == {s[i] : i \in 1..Len(s)}

Max2(a, b) == IF a >= b THEN a ELSE b

Min2(a, b) == IF a <= b THEN a ELSE b

\* ------------------------------------------------------------------------
\* Detections offered by the external detector
\* ------------------------------------------------------------------------
Det(c, conf, b) == [class |-> c, confidence |-> conf, bbox |-> b]

HumanOnTrack == Det("human", 90, <<295, 180, 345, 280>>)

HumanShifted == Det("human", 90, <<315, 180, 365, 280>>)

HumanMoved == Det("human", 90, <<355, 180, 405, 280>>)

\* centred half way between HumanOnTrack and HumanMoved
HumanBetween == Det("human", 90, <<325, 180, 375, 280>>)

\* centred 100 px to the right of HumanOnTrack
HumanAtGate == Det("human", 90, <<395, 180, 445, 280>>)

VehicleOnTrack == Det("vehicle", 85, <<280, 370, 360, 430>>)

AnimalNearTrack == Det("animal", 80, <<410, 250, 470, 330>>)

DebrisAside == Det("debris", 90, <<20, 250, 80, 330>>)

\* ------------------------------------------------------------------------
\* ObstacleTracker
\* ------------------------------------------------------------------------
get_center(bbox) == <<bbox[1] + bbox[3], bbox[2] + bbox[4]>>

\* squared norm of the difference of two doubled centres: (2 * distance)^2
Norm2Sq(c1, c2) == (c1[1] - c2[1]) * (c1[1] - c2[1]) + (c1[2] - c2[2]) * (c1[2] - c2[2])

\* distance(c1, c2) < t
DistLess(c1, c2, t) == Norm2Sq(c1, c2) < 4 * t * t

\* a comparison that lets a later track at the same distance win
CloserOrEqual(c1, c2, c3) == Norm2Sq(c1, c2) <= Norm2Sq(c1, c3)

\* distance(c1, c2) < distance(c1, c3)
Closer(c1, c2, c3) == Norm2Sq(c1, c2) < Norm2Sq(c1, c3)

\* T.issued is history: the ids returned by register, in call order
TrackerInit == [objects |-> << >>, disappeared |-> << >>, next_object_id |-> 0, issued |-> <<>>]

\* a tracker that hands out the lowest id not in use
register_lowest_free(T, detection) ==
    LET id == MinOf((0..T.next_object_id) \ DOMAIN T.objects)
    IN  [objects        |-> Put(T.objects, id, detection),
         disappeared    |-> Put(T.disappeared, id, 0),
         next_object_id |-> Max2(T.next_object_id, id + 1),
         issued         |-> Append(T.issued, id)]

register(T, detection) ==
    [objects        |-> Put(T.objects, T.next_object_id, detection),
     disappeared    |-> Put(T.disappeared, T.next_object_id, 0),
     next_object_id |-> T.next_object_id + 1,
     issued         |-> Append(T.issued, T.next_object_id)]

\* a tracker that forgets to delete the counter of a deregistered track
deregister_objects_only(T, object_id) ==
    [T EXCEPT !.objects = Drop(T.objects, object_id)]

deregister(T, object_id) ==
    [T EXCEPT !.objects = Drop(T.objects, object_id),
              !.disappeared = Drop(T.disappeared, object_id)]

\* a tracker that drops a track one frame early
DisappearedTooLong_early(count) == count >= max_disappeared

DisappearedTooLong(count) == count > max_disappeared

RECURSIVE mark_disappeared(_, _)
\* for object_id in ids: disappeared += 1, deregister when above max_disappeared
mark_disappeared(T, ids) ==
    IF ids = <<>> THEN T
    ELSE LET id == Head(ids)
             T1 == [T EXCEPT !.disappeared[id] = @ + 1]
             T2 == IF DisappearedTooLong(T1.disappeared[id]) THEN deregister(T1, id) ELSE T1
         IN  mark_disappeared(T2, Tail(ids))

RECURSIVE register_all(_, _)
register_all(T, detections) ==
    IF detections = <<>> THEN T
    ELSE register_all(register(T, Head(detections)), Tail(detections))

RECURSIVE best_match(_, _, _, _)
\* inner loop: the first id of object_ids, in order, at minimal distance
\* (strict <, so an equal distance does not replace the earlier candidate)
best_match(T, det_center, object_ids, best) ==
    IF object_ids = <<>> THEN best
    ELSE LET object_id == Head(object_ids)
             obj_center == get_center(T.objects[object_id].bbox)
             better == \/ best = None
                       \/ Closer(det_center, obj_center, get_center(T.objects[best].bbox))
         IN  best_match(T, det_center, Tail(object_ids), IF better THEN object_id ELSE best)

\* a gate of half the distance
WithinGate_half(c1, c2) == DistLess(c1, c2, GatingDistance \div 2)

WithinGate(c1, c2) == DistLess(c1, c2, GatingDistance)

RECURSIVE match_loop(_, _, _)
\* outer loop over the detections; yields the tracker and the ids left unmatched
match_loop(T, detections, object_ids) ==
    IF detections = <<>> THEN [T |-> T, object_ids |-> object_ids]
    ELSE LET detection == Head(detections)
             det_center == get_center(detection.bbox)
             best == best_match(T, det_center, object_ids, None)
             hit == /\ best # None
                    /\ WithinGate(det_center, get_center(T.objects[best].bbox))
         IN  IF hit
             THEN match_loop([T EXCEPT !.objects[best] = detection, !.disappeared[best] = 0],
                             Tail(detections), RemoveFirst(object_ids, best))
             ELSE match_loop(register(T, detection), Tail(detections), object_ids)

\* the ids of existing tracks that the call leaves without a detection
unmatched_ids(T, detections) ==
    IF Len(detections) = 0 THEN Keys(DOMAIN T.disappeared)
    ELSE IF DOMAIN T.objects = {} THEN <<>>
    ELSE match_loop(T, detections, Keys(DOMAIN T.objects)).object_ids

tracker_update(T, detections) ==
    IF Len(detections) = 0
    THEN mark_disappeared(T, Keys(DOMAIN T.disappeared))
    ELSE IF Cardinality(DOMAIN T.objects) = 0
    THEN register_all(T, detections)
    ELSE LET M == match_loop(T, detections, Keys(DOMAIN T.objects))
         IN  mark_disappeared(M.T, M.object_ids)

\* ------------------------------------------------------------------------
\* MultiFrameConfirmation
\* ------------------------------------------------------------------------
CleanupTimeout == 10

PositionsMaxLen == 10

DetectionsMaxLen == min_consecutive_frames + max_frame_gap

\* an append that evicts nothing
DequeAppend_unbounded(s, x, maxlen) == Append(s, x)

\* collections.deque(maxlen=n).append
DequeAppend(s, x, maxlen) ==
    IF Len(s) >= maxlen THEN Tail(s) \o <<x>> ELSE Append(s, x)

\* the defaultdict factory of obstacle_history
NewHistory ==
    [detections |-> <<>>, first_seen |-> None, last_seen |-> None,
     confirmed |-> FALSE, positions |-> <<>>, is_static |-> FALSE]

MfcInit == [obstacle_history |-> << >>, confirmed_obstacles |-> << >>, frame_count |-> 0]

\* list(detections)[-n:]
LastN(s, n) == IF Len(s) <= n THEN s ELSE SubSeq(s, Len(s) - n + 1, Len(s))

GapAllowed(gap) == gap <= max_frame_gap

\* confirms one appearance late
should_confirm_late(history) ==
    LET detections == history.detections
        recent_frames == [i \in 1..Len(LastN(detections, min_consecutive_frames)) |->
                              LastN(detections, min_consecutive_frames)[i].frame]
        gaps == [i \in 1..(Len(recent_frames) - 1) |-> recent_frames[i + 1] - recent_frames[i] - 1]
    IN  IF Len(detections) <= min_consecutive_frames THEN FALSE
        ELSE \A i \in 1..Len(gaps) : GapAllowed(gaps[i])

\* tests the gaps of the whole stored window instead of its last entries
should_confirm_whole_window(history) ==
    LET detections == history.detections
        recent_frames == [i \in 1..Len(detections) |-> detections[i].frame]
        gaps == [i \in 1..(Len(recent_frames) - 1) |-> recent_frames[i + 1] - recent_frames[i] - 1]
    IN  IF Len(detections) < min_consecutive_frames THEN FALSE
        ELSE \A i \in 1..Len(gaps) : GapAllowed(gaps[i])

should_confirm(history) ==
    LET detections == history.detections
        recent_frames == [i \in 1..Len(LastN(detections, min_consecutive_frames)) |->
                              LastN(detections, min_consecutive_frames)[i].frame]
        gaps == [i \in 1..(Len(recent_frames) - 1) |-> recent_frames[i + 1] - recent_frames[i] - 1]
    IN  IF Len(detections) < min_consecutive_frames THEN FALSE
        ELSE \A i \in 1..Len(gaps) : GapAllowed(gaps[i])

is_static(positions) ==
    IF Len(positions) < 2 THEN TRUE
    ELSE \A i \in 1..(Len(positions) - 1) :
             DistLess(positions[i + 1], positions[i], movement_threshold)

\* a loop body that withdraws the confirmation when the gap test fails
mfc_track_unconfirming(M, obj_id, detection, current_time) ==
    LET h0 == IF obj_id \in DOMAIN M.obstacle_history
              THEN M.obstacle_history[obj_id] ELSE NewHistory
        dets == DequeAppend(h0.detections,
                            [detection |-> detection, frame |-> M.frame_count,
                             timestamp |-> current_time], DetectionsMaxLen)
        pos == DequeAppend(h0.positions, get_center(detection.bbox), PositionsMaxLen)
        h1 == [h0 EXCEPT !.detections = dets,
                         !.first_seen = IF @ = None THEN current_time ELSE @,
                         !.last_seen = current_time,
                         !.positions = pos,
                         !.is_static = IF Len(pos) >= 3 THEN is_static(pos) ELSE @]
        ok == should_confirm(h1)
        h2 == [h1 EXCEPT !.confirmed = ok]
        conf == IF ok THEN Put(M.confirmed_obstacles, obj_id, detection)
                ELSE Drop(M.confirmed_obstacles, obj_id)
        out == IF ok
               THEN <<[class |-> detection.class, confidence |-> detection.confidence,
                       bbox |-> detection.bbox, object_id |-> obj_id,
                       duration |-> current_time - h1.first_seen,
                       is_static |-> h1.is_static, frame_count |-> Len(dets)]>>
               ELSE <<>>
    IN  [M |-> [M EXCEPT !.obstacle_history = Put(@, obj_id, h2),
                         !.confirmed_obstacles = conf],
         confirmed |-> out]

\* the body of the loop over tracked_objects for one (obj_id, detection)
mfc_track(M, obj_id, detection, current_time) ==
    LET h0 == IF obj_id \in DOMAIN M.obstacle_history
              THEN M.obstacle_history[obj_id] ELSE NewHistory
        dets == DequeAppend(h0.detections,
                            [detection |-> detection, frame |-> M.frame_count,
                             timestamp |-> current_time], DetectionsMaxLen)
        pos == DequeAppend(h0.positions, get_center(detection.bbox), PositionsMaxLen)
        h1 == [h0 EXCEPT !.detections = dets,
                         !.first_seen = IF @ = None THEN current_time ELSE @,
                         !.last_seen = current_time,
                         !.positions = pos,
                         !.is_static = IF Len(pos) >= 3 THEN is_static(pos) ELSE @]
        ok == should_confirm(h1)
        h2 == IF ok THEN [h1 EXCEPT !.confirmed = TRUE] ELSE h1
        conf == IF ok /\ ~h1.confirmed
                THEN Put(M.confirmed_obstacles, obj_id, detection)
                ELSE M.confirmed_obstacles
        out == IF ok
               THEN <<[class |-> detection.class, confidence |-> detection.confidence,
                       bbox |-> detection.bbox, object_id |-> obj_id,
                       duration |-> current_time - h1.first_seen,
                       is_static |-> h1.is_static, frame_count |-> Len(dets)]>>
               ELSE <<>>
    IN  [M |-> [M EXCEPT !.obstacle_history = Put(@, obj_id, h2),
                         !.confirmed_obstacles = conf],
         confirmed |-> out]

RECURSIVE mfc_loop(_, _, _, _, _)
mfc_loop(M, tracked_objects, ids, current_time, confirmed) ==
    IF ids = <<>> THEN [M |-> M, confirmed |-> confirmed]
    ELSE LET r == mfc_track(M, Head(ids), tracked_objects[Head(ids)], current_time)
         IN  mfc_loop(r.M, tracked_objects, Tail(ids), current_time, confirmed \o r.confirmed)

\* "history['last_seen'] and ...": None and 0 are both falsy
Truthy(t) == t # None /\ t # 0

\* a purge that also removes an entry last seen exactly the timeout ago
Stale_at_timeout(history, current_time) ==
    Truthy(history.last_seen) /\ (current_time - history.last_seen) >= CleanupTimeout

Stale(history, current_time) ==
    Truthy(history.last_seen) /\ (current_time - history.last_seen) > CleanupTimeout

cleanup_old_obstacles(M, current_time) ==
    LET to_remove == {id \in DOMAIN M.obstacle_history :
                          Stale(M.obstacle_history[id], current_time)}
    IN  [M EXCEPT !.obstacle_history = [id \in (DOMAIN @) \ to_remove |-> @[id]],
                  !.confirmed_obstacles = [id \in (DOMAIN @) \ to_remove |-> @[id]]]

\* MultiFrameConfirmation.update; yields the new state and the returned list
mfc_update(M, tracked_objects, current_time) ==
    LET M1 == [M EXCEPT !.frame_count = @ + 1]
        r == mfc_loop(M1, tracked_objects, Keys(DOMAIN tracked_objects), current_time, <<>>)
    IN  [M |-> cleanup_old_obstacles(r.M, current_time), confirmed |-> r.confirmed]

\* the dict built by get_obstacle_info from an entry of obstacle_history
obstacle_info(obj_id, history) ==
    [object_id       |-> obj_id,
     first_seen      |-> history.first_seen,
     last_seen       |-> history.last_seen,
     duration        |-> IF Truthy(history.first_seen)
                         THEN history.last_seen - history.first_seen ELSE 0,
     detection_count |-> Len(history.detections),
     confirmed       |-> history.confirmed,
     is_static       |-> history.is_static,
     positions       |-> history.positions]

\* a lookup that indexes the defaultdict without the membership test
get_obstacle_info_defaulting(M, obj_id) ==
    LET h == IF obj_id \in DOMAIN M.obstacle_history
             THEN M.obstacle_history[obj_id] ELSE NewHistory
    IN  [M    |-> [M EXCEPT !.obstacle_history = Put(@, obj_id, h)],
         info |-> <<obstacle_info(obj_id, h)>>]

\* yields the state after the call and the returned value: <<>> for None,
\* <<info>> for a dict
get_obstacle_info(M, obj_id) ==
    IF obj_id \notin DOMAIN M.obstacle_history
    THEN [M |-> M, info |-> <<>>]
    ELSE [M |-> M, info |-> <<obstacle_info(obj_id, M.obstacle_history[obj_id])>>]

RECURSIVE all_confirmed_loop(_, _, _)
\* for obj_id, detection in confirmed_obstacles.items(): append {**detection, **info}
all_confirmed_loop(M, ids, confirmed) ==
    IF ids = <<>> THEN [M |-> M, confirmed |-> confirmed]
    ELSE LET r == get_obstacle_info(M, Head(ids))
             detection == M.confirmed_obstacles[Head(ids)]
             item == IF r.info = <<>> THEN <<>>
                     ELSE <<[detection |-> detection, info |-> r.info[1]]>>
         IN  all_confirmed_loop(r.M, Tail(ids), confirmed \o item)

\* the returned list is given in id order
get_all_confirmed(M) ==
    all_confirmed_loop(M, Keys(DOMAIN M.confirmed_obstacles), <<>>)

reset(M) == [M EXCEPT !.obstacle_history = << >>, !.confirmed_obstacles = << >>,
                      !.frame_count = 0]

\* confirmation_rate is given in percent, rounded down
get_stats(M) ==
    LET total_tracked == Cardinality(DOMAIN M.obstacle_history)
        total_confirmed == Cardinality(DOMAIN M.confirmed_obstacles)
    IN  [frame_count       |-> M.frame_count,
         total_tracked     |-> total_tracked,
         total_confirmed   |-> total_confirmed,
         confirmation_rate |-> IF total_tracked > 0
                               THEN (100 * total_confirmed) \div total_tracked ELSE 0,
         static_obstacles  |-> Cardinality({id \in DOMAIN M.obstacle_history :
                                                M.obstacle_history[id].is_static})]

\* ------------------------------------------------------------------------
\* FalseAlertFilter
\* ------------------------------------------------------------------------
min_size == 1000

MaxAspectRatio == 10

DebrisMinConfidence == 60

AlertHistoryMaxLen == 100

time_window == 30

SimilarThreshold == 50

\* a size rule that also rejects a bbox of exactly min_size
TooSmall_inclusive(bbox) == (bbox[3] - bbox[1]) * (bbox[4] - bbox[2]) <= min_size

TooSmall(bbox) == (bbox[3] - bbox[1]) * (bbox[4] - bbox[2]) < min_size

\* aspect_ratio = max(w, h) / min(w, h) if min(w, h) > 0 else 0;  aspect_ratio > 10
TooElongated(bbox) ==
    LET width == bbox[3] - bbox[1]
        height == bbox[4] - bbox[2]
    IN  Min2(width, height) > 0 /\ Max2(width, height) > MaxAspectRatio * Min2(width, height)

WeakDebris(obstacle) == obstacle.class = "debris" /\ obstacle.confidence < DebrisMinConfidence

Rejected(obstacle) ==
    TooSmall(obstacle.bbox) \/ TooElongated(obstacle.bbox) \/ WeakDebris(obstacle)

RECURSIVE filter(_)
\* FalseAlertFilter.filter: the kept obstacles, in input order
filter(obstacles) ==
    IF obstacles = <<>> THEN <<>>
    ELSE IF Rejected(Head(obstacles)) THEN filter(Tail(obstacles))
    ELSE <<Head(obstacles)>> \o filter(Tail(obstacles))

\* the number of "suppressed_count += 1" of one filter call
filter_suppressed(obstacles) ==
    Cardinality({i \in 1..Len(obstacles) : Rejected(obstacles[i])})

is_similar_location(bbox1, bbox2) ==
    DistLess(get_center(bbox1), get_center(bbox2), SimilarThreshold)

\* an entry exactly time_window old is already skipped
Expired_at_window(past_alert, current_time) == current_time - past_alert.timestamp >= time_window

Expired(past_alert, current_time) == current_time - past_alert.timestamp > time_window

RECURSIVE dup_scan(_, _, _)
\* the loop over alert_history: TRUE at the first live, same-class, similar entry
dup_scan(history, obstacle, current_time) ==
    IF history = <<>> THEN FALSE
    ELSE LET past_alert == Head(history)
         IN  IF Expired(past_alert, current_time)
             THEN dup_scan(Tail(history), obstacle, current_time)
             ELSE IF past_alert.class = obstacle.class
                     /\ is_similar_location(past_alert.bbox, obstacle.bbox)
                  THEN TRUE
                  ELSE dup_scan(Tail(history), obstacle, current_time)

\* FalseAlertFilter.is_duplicate_alert; yields the result and the new alert_history
is_duplicate_alert(history, obstacle, current_time) ==
    IF dup_scan(history, obstacle, current_time)
    THEN [result |-> TRUE, alert_history |-> history]
    ELSE [result |-> FALSE,
          alert_history |-> DequeAppend(history,
                                        [timestamp |-> current_time, class |-> obstacle.class,
                                         bbox |-> obstacle.bbox], AlertHistoryMaxLen)]

\* ------------------------------------------------------------------------
\* TrackSegmentation.classify_zone (fractions of the frame are in percent)
\* ------------------------------------------------------------------------
FrameWidth == 640

FrameHeight == 480

track_top_y == 40

track_bottom_y == 95

critical_zone_width == 25

warning_zone_width == 40

Abs(x) == IF x < 0 THEN -x ELSE x

\* a classifier whose zone edges belong to the zone outside them
classify_zone_open(bbox, W, H) ==
    LET c == get_center(bbox)
        off == Abs(c[1] - W) * 100
    IN  IF c[2] * 100 < track_top_y * 2 * H \/ c[2] * 100 > track_bottom_y * 2 * H THEN "safe"
        ELSE IF off < critical_zone_width * W THEN "critical"
        ELSE IF off < warning_zone_width * W THEN "warning"
        ELSE "safe"

\* norm_x = cx / W, norm_y = cy / H with (cx, cy) the centre; c = doubled centre
classify_zone(bbox, W, H) ==
    LET c == get_center(bbox)
        above == c[2] * 100 < track_top_y * 2 * H
        below == c[2] * 100 > track_bottom_y * 2 * H
        \* |norm_x - 0.5| <= w / 2   <=>   |2cx - W| * 100 <= w% * W
        off == Abs(c[1] - W) * 100
    IN  IF above \/ below THEN "safe"
        ELSE IF off <= critical_zone_width * W THEN "critical"
        ELSE IF off <= warning_zone_width * W THEN "warning"
        ELSE "safe"

\* ------------------------------------------------------------------------
\* DistanceEstimator (known heights in tenths of a metre)
\* ------------------------------------------------------------------------
Inf == 1000000000

focal_length == 800

default_train_speed == 60

known_height(class) ==
    CASE class = "human" -> 17
      [] class = "vehicle" -> 15
      [] class = "animal" -> 8
      [] class = "debris" -> 3
      [] OTHER -> 10

\* round(n / d) for n >= 0, d > 0
RoundDiv(n, d) == (2 * n + d) \div (2 * d)

\* the fields of a DistanceEstimator that its methods assign after construction
EstimatorInit == [focal_length |-> focal_length, train_speed |-> default_train_speed]

update_train_speed(E, speed_kmh) == [E EXCEPT !.train_speed = Max2(0, speed_kmh)]

\* yields the estimator after the call and the returned focal length; heights
\* in tenths of a metre, for arguments whose quotient is a whole number
calibrate_focal_length(E, known_distance, known_height_m, pixel_height) ==
    LET calibrated == (pixel_height * known_distance * 10) \div known_height_m
    IN  [E |-> [E EXCEPT !.focal_length = calibrated], focal_length |-> calibrated]

\* calculate_ttc(estimate_distance(obstacle)) of estimator E, rounded to
\* hundredths of a second:
\*   distance = kh * focal / ph  (max(0, .)),  ttc = distance / (speed / 3.6)
estimator_ttc(E, obstacle) ==
    LET pixel_height == obstacle.bbox[4] - obstacle.bbox[2]
    IN  IF E.train_speed = 0 THEN Inf
        ELSE IF pixel_height = 0 THEN Inf
        ELSE IF pixel_height < 0 THEN 0
        ELSE RoundDiv(known_height(obstacle.class) * E.focal_length * 36,
                      pixel_height * E.train_speed)

\* the same for an estimator with the configured focal length running at speed_kmh
ttc_of(obstacle, speed_kmh) ==
    estimator_ttc([focal_length |-> focal_length, train_speed |-> speed_kmh], obstacle)

\* get_ttc_level: the cut-offs are ttc_critical (passed in), ttc_high and ttc_medium
ttc_critical_default == 20

ttc_high == 40

ttc_medium == 60

get_ttc_level(ttc, ttc_critical) ==
    IF ttc < ttc_critical * 100 THEN "critical"
    ELSE IF ttc < ttc_high * 100 THEN "high"
    ELSE IF ttc < ttc_medium * 100 THEN "medium"
    ELSE "low"

\* ------------------------------------------------------------------------
\* CollisionRiskAssessor (scores in tenths of a point, multipliers in tenths)
\* ------------------------------------------------------------------------
class_score(obstacle_class) ==
    CASE obstacle_class = "human" -> 40
      [] obstacle_class = "vehicle" -> 35
      [] obstacle_class = "animal" -> 30
      [] obstacle_class = "debris" -> 20
      [] OTHER -> 25

zone_multiplier(zone) ==
    CASE zone = "critical" -> 20
      [] zone = "warning" -> 15
      [] zone = "safe" -> 5
      [] OTHER -> 10

\* a score that is not capped at 100
calculate_risk_score_uncapped(obstacle_class, zone, ttc, static) ==
    class_score(obstacle_class) * zone_multiplier(zone)
      + (IF ttc < 1000 THEN 300 ELSE IF ttc < 2000 THEN 200 ELSE IF ttc < 4000 THEN 100 ELSE 0)
      + (IF static THEN 100 ELSE 0)

\* _calculate_risk_score: score = 0; += class score; *= zone multiplier;
\* += TTC contribution; += static penalty; min(100, score)
calculate_risk_score(obstacle_class, zone, ttc, static) ==
    LET score1 == 0 + class_score(obstacle_class)
        score2 == score1 * zone_multiplier(zone)
        score3 == IF ttc < 1000 THEN score2 + 300
                  ELSE IF ttc < 2000 THEN score2 + 200
                  ELSE IF ttc < 4000 THEN score2 + 100
                  ELSE score2
        score4 == IF static THEN score3 + 100 ELSE score3
    IN  Min2(1000, score4)

get_risk_level(risk_score) ==
    IF risk_score >= 750 THEN "critical"
    ELSE IF risk_score >= 500 THEN "high"
    ELSE IF risk_score >= 250 THEN "medium"
    ELSE "low"

\* a ttc level that is taken from the zone when there is no finite ttc
assess_ttc_level_by_zone(ttc, zone, ttc_critical) ==
    IF ttc = Inf /\ zone = "critical" THEN "high" ELSE get_ttc_level(ttc, ttc_critical)

assess_ttc_level(ttc, zone, ttc_critical) == get_ttc_level(ttc, ttc_critical)

\* assess_risk, for an assessor whose estimator runs at train_speed; level and
\* score are computed from the ttc at the resolution of ttc_seconds
assess_risk(obstacle, zone, train_speed, ttc_critical) ==
    LET ttc == ttc_of(obstacle, train_speed)
        risk_score == calculate_risk_score(obstacle.class, zone, ttc, obstacle.is_static)
    IN  [obstacle_class |-> obstacle.class,
         ttc_seconds    |-> ttc,
         ttc_level      |-> assess_ttc_level(ttc, zone, ttc_critical),
         zone           |-> zone,
         risk_score     |-> risk_score,
         risk_level     |-> get_risk_level(risk_score),
         is_static      |-> obstacle.is_static]

\* ------------------------------------------------------------------------
\* SeverityClassifier (ttc in hundredths of a second, cut-offs in seconds)
\* ------------------------------------------------------------------------
\* a comparison that also accepts a ttc exactly at the cut-off
TtcBelow_inclusive(ttc, seconds) == ttc <= seconds * 100

TtcBelow(ttc, seconds) == ttc < seconds * 100

is_critical(obstacle_class, zone, ttc, static) ==
    \/ obstacle_class = "human" /\ zone = "critical" /\ TtcBelow(ttc, 20)
    \/ obstacle_class = "vehicle" /\ zone = "critical" /\ TtcBelow(ttc, 15)
    \/ static /\ zone = "critical" /\ TtcBelow(ttc, 25)
    \/ obstacle_class \in {"human", "vehicle"} /\ zone = "critical" /\ TtcBelow(ttc, 10)

is_high(obstacle_class, zone, ttc, static) ==
    \/ obstacle_class = "human" /\ zone = "warning" /\ TtcBelow(ttc, 40)
    \/ obstacle_class = "animal" /\ zone = "critical"
    \/ obstacle_class = "debris" /\ zone = "critical" /\ static
    \/ obstacle_class = "vehicle" /\ zone = "warning" /\ TtcBelow(ttc, 30)
    \/ zone = "critical" /\ TtcBelow(ttc, 40)

\* a rule table whose human rule applies in the safe zone only
is_medium_human_safe_only(obstacle_class, zone, ttc) ==
    \/ obstacle_class = "animal" /\ zone = "warning"
    \/ obstacle_class = "debris" /\ zone = "critical"
    \/ obstacle_class = "vehicle" /\ zone = "warning" /\ TtcBelow(ttc, 60)
    \/ obstacle_class = "human" /\ zone = "safe" /\ TtcBelow(ttc, 60)
    \/ zone = "critical" /\ TtcBelow(ttc, 60)

is_medium(obstacle_class, zone, ttc) ==
    \/ obstacle_class = "animal" /\ zone = "warning"
    \/ obstacle_class = "debris" /\ zone = "critical"
    \/ obstacle_class = "vehicle" /\ zone = "warning" /\ TtcBelow(ttc, 60)
    \/ obstacle_class = "human" /\ TtcBelow(ttc, 60)
    \/ zone = "critical" /\ TtcBelow(ttc, 60)

\* incident = [obstacle_class, zone, ttc, is_static, ...]
classify(incident) ==
    IF is_critical(incident.obstacle_class, incident.zone, incident.ttc, incident.is_static)
    THEN "critical"
    ELSE IF is_high(incident.obstacle_class, incident.zone, incident.ttc, incident.is_static)
    THEN "high"
    ELSE IF is_medium(incident.obstacle_class, incident.zone, incident.ttc)
    THEN "medium"
    ELSE "low"

get_severity_priority(severity) ==
    CASE severity = "critical" -> 4
      [] severity = "high" -> 3
      [] severity = "medium" -> 2
      [] severity = "low" -> 1
      [] OTHER -> 0

\* classify_batch: the per-incident record (severity_color and timestamp left out)
classified_incident(incident) ==
    [obstacle_class |-> incident.obstacle_class, zone |-> incident.zone, ttc |-> incident.ttc,
     is_static |-> incident.is_static,
     severity |-> classify(incident),
     severity_priority |-> get_severity_priority(classify(incident))]

RECURSIVE insert_before_equal(_, _)
\* an insertion that puts x in front of the entries of its own priority
insert_before_equal(sorted, x) ==
    IF sorted = <<>> THEN <<x>>
    ELSE IF Head(sorted).severity_priority > x.severity_priority
         THEN <<Head(sorted)>> \o insert_before_equal(Tail(sorted), x)
         ELSE <<x>> \o sorted

RECURSIVE insert_by_priority(_, _)
\* list.sort(key = severity_priority, reverse = True) is stable: x goes behind
\* every entry whose priority is not lower than its own
insert_by_priority(sorted, x) ==
    IF sorted = <<>> THEN <<x>>
    ELSE IF Head(sorted).severity_priority >= x.severity_priority
         THEN <<Head(sorted)>> \o insert_by_priority(Tail(sorted), x)
         ELSE <<x>> \o sorted

RECURSIVE sort_by_priority(_, _)
sort_by_priority(classified, sorted) ==
    IF classified = <<>> THEN sorted
    ELSE sort_by_priority(Tail(classified), insert_by_priority(sorted, Head(classified)))

classify_batch(incidents) ==
    sort_by_priority([i \in 1..Len(incidents) |-> classified_incident(incidents[i])], <<>>)

\* ------------------------------------------------------------------------
\* IncidentReporter.generate_report (the fields the pipeline passes on)
\* ------------------------------------------------------------------------
\* datetime.now() reads current_time seconds and usec microseconds; the id is
\* the text INC_%Y%m%d%H%M%S%f of that reading
generate_report(incident, current_time, usec) ==
    [incident_id |-> <<current_time, usec>>,
     timestamp   |-> current_time,
     severity    |-> classify(incident),
     severity_priority |-> get_severity_priority(classify(incident)),
     type        |-> incident.obstacle_class,
     confidence  |-> incident.confidence,
     is_static   |-> incident.is_static,
     zone        |-> incident.zone,
     bbox        |-> incident.bbox,
     ttc_seconds |-> incident.ttc]

\* ------------------------------------------------------------------------
\* AlertManager.send_alert
\* ------------------------------------------------------------------------
AlertChannels == {"telegram", "sms", "local"}

\* the manager built without a config file
DefaultAlertConfig ==
    [telegram_enabled |-> FALSE, sms_enabled |-> FALSE, local_enabled |-> TRUE,
     escalation |-> << >>]

\* self.escalation.get(severity, ['log_only'])
escalation_channels(config, severity) ==
    IF severity \in DOMAIN config.escalation THEN config.escalation[severity]
    ELSE <<"log_only">>

channel_enabled(config, channel) ==
    CASE channel = "telegram" -> config.telegram_enabled
      [] channel = "sms" -> config.sms_enabled
      [] channel = "local" -> config.local_enabled
      [] OTHER -> FALSE

\* _log_alert: the entry appended to alert_history (its own timestamp left out)
alert_entry(incident) ==
    [incident_id |-> incident.incident_id, severity |-> incident.severity,
     obstacle_type |-> incident.type, zone |-> incident.zone]

RECURSIVE send_loop_stop_at_failure(_, _, _, _)
\* a loop that gives up at the first channel that fails
send_loop_stop_at_failure(config, channels, incident, outcome) ==
    IF channels = <<>> THEN [success |-> TRUE, attempts |-> <<>>, logged |-> <<>>]
    ELSE LET channel == Head(channels)
             rest == send_loop_stop_at_failure(config, Tail(channels), incident, outcome)
         IN  IF channel_enabled(config, channel)
             THEN IF outcome[channel]
                  THEN [success |-> rest.success, attempts |-> <<channel>> \o rest.attempts,
                        logged |-> rest.logged]
                  ELSE [success |-> FALSE, attempts |-> <<channel>>, logged |-> <<>>]
             ELSE IF channel = "log_only"
                  THEN [success |-> rest.success, attempts |-> rest.attempts,
                        logged |-> <<alert_entry(incident)>> \o rest.logged]
                  ELSE rest

RECURSIVE send_loop(_, _, _, _)
\* the loop over channels: an enabled channel is attempted and its result is
\* and-ed into success (success &= ...); log_only logs.  outcome[channel] is
\* what the channel's sender returns: TRUE, or FALSE when it has no client or
\* caught an exception.
send_loop(config, channels, incident, outcome) ==
    IF channels = <<>> THEN [success |-> TRUE, attempts |-> <<>>, logged |-> <<>>]
    ELSE LET channel == Head(channels)
             rest == send_loop(config, Tail(channels), incident, outcome)
         IN  IF channel_enabled(config, channel)
             THEN [success |-> outcome[channel] /\ rest.success,
                   attempts |-> <<channel>> \o rest.attempts,
                   logged |-> rest.logged]
             ELSE IF channel = "log_only"
                  THEN [success |-> rest.success, attempts |-> rest.attempts,
                        logged |-> <<alert_entry(incident)>> \o rest.logged]
                  ELSE rest

\* send_alert: the channels of the severity, then "Always log"; yields the
\* returned boolean, the channels attempted in order and the entries logged
send_alert(config, incident, outcome) ==
    LET r == send_loop(config, escalation_channels(config, incident.severity), incident, outcome)
    IN  [success |-> r.success, attempts |-> r.attempts,
         logged |-> r.logged \o <<alert_entry(incident)>>]

\* ------------------------------------------------------------------------
\* IncidentLogger.log_incident (sqlite database, local JSON storage enabled)
\* ------------------------------------------------------------------------
\* "Prepare data": the row of the incidents table
incident_row(incident) ==
    [incident_id |-> incident.incident_id, timestamp |-> incident.timestamp,
     severity |-> incident.severity, obstacle_type |-> incident.type,
     zone |-> incident.zone, ttc_seconds |-> incident.ttc_seconds,
     confidence |-> incident.confidence, is_static |-> incident.is_static]

\* INSERT OR REPLACE INTO incidents, incident_id being the primary key
save_to_sqlite(table, data) == Put(table, data.incident_id, data)

\* open(json_file, 'a'); write(json.dumps(incident) + '\n')
save_to_json(file, incident) == Append(file, incident)

log_incident(L, incident) ==
    [db_incidents |-> save_to_sqlite(L.db_incidents, incident_row(incident)),
     json_file    |-> save_to_json(L.json_file, incident)]

RECURSIVE log_incidents(_, _)
log_incidents(L, incidents) ==
    IF incidents = <<>> THEN L
    ELSE log_incidents(log_incident(L, Head(incidents)), Tail(incidents))

RECURSIVE alerts_logged(_)
\* what the send_alert calls of one frame append to AlertManager.alert_history
alerts_logged(incidents) ==
    IF incidents = <<>> THEN <<>>
    ELSE send_alert(DefaultAlertConfig, Head(incidents), [c \in AlertChannels |-> c # "sms"]).logged
           \o alerts_logged(Tail(incidents))

\* ------------------------------------------------------------------------
\* RailTrackSystem.process_frame, steps 5 and 6
\* ------------------------------------------------------------------------
\* the severities for which process_frame generates a report
Reported(severity) == severity \in {"critical", "high"}

\* step 5: obstacle['zone'] = classify_zone(obstacle['bbox'])
with_zone(obstacle, W, H) ==
    [class |-> obstacle.class, confidence |-> obstacle.confidence, bbox |-> obstacle.bbox,
     object_id |-> obstacle.object_id, duration |-> obstacle.duration,
     is_static |-> obstacle.is_static, frame_count |-> obstacle.frame_count,
     zone |-> classify_zone(obstacle.bbox, W, H)]

\* step 6, "Create incident data" for one obstacle of obstacles_with_zones
incident_of(obstacle) ==
    [obstacle_class |-> obstacle.class,
     zone           |-> obstacle.zone,
     ttc            |-> ttc_of(obstacle, default_train_speed),
     is_static      |-> obstacle.is_static,
     confidence     |-> obstacle.confidence,
     bbox           |-> obstacle.bbox]

RECURSIVE report_loop_log_last(_, _, _, _)
\* sends the alert at once but defers the logging to the end of the frame, newest first
report_loop_log_last(obstacles, current_time, usec, tick) ==
    IF obstacles = <<>> THEN [incidents |-> <<>>, events |-> <<>>]
    ELSE LET incident == incident_of(Head(obstacles))
             severity == classify(incident)
             report == generate_report(incident, current_time, usec)
             rest == report_loop_log_last(Tail(obstacles), current_time,
                                          IF Reported(severity) THEN usec + tick ELSE usec, tick)
         IN  IF Reported(severity)
             THEN [incidents |-> <<report>> \o rest.incidents,
                   events |-> <<[to |-> "send_alert", report |-> report]>> \o rest.events
                              \o <<[to |-> "log_incident", report |-> report]>>]
             ELSE rest

RECURSIVE report_loop(_, _, _, _)
\* the loop of step 6: per obstacle classify, and if reported: generate_report,
\* alert_manager.send_alert(report), incident_logger.log_incident(report),
\* incidents.append(report).  events is the sequence of collaborator calls.
\* The first generate_report reads the clock at usec, each later one tick
\* microseconds after the one before.
report_loop(obstacles, current_time, usec, tick) ==
    IF obstacles = <<>> THEN [incidents |-> <<>>, events |-> <<>>]
    ELSE LET incident == incident_of(Head(obstacles))
             severity == classify(incident)
             report == generate_report(incident, current_time, usec)
             rest == report_loop(Tail(obstacles), current_time,
                                 IF Reported(severity) THEN usec + tick ELSE usec, tick)
         IN  IF Reported(severity)
             THEN [incidents |-> <<report>> \o rest.incidents,
                   events |-> <<[to |-> "send_alert", report |-> report],
                                [to |-> "log_incident", report |-> report]>> \o rest.events]
             ELSE rest

\* ------------------------------------------------------------------------
\* State
\* ------------------------------------------------------------------------
VARIABLES
    objects, disappeared, next_object_id,            \* ObstacleTracker
    obstacle_history, confirmed_obstacles, frame_count,  \* MultiFrameConfirmation
    alert_history, suppressed_count,                 \* FalseAlertFilter
    frame_width, frame_height,                       \* TrackSegmentation
    stats,                                           \* RailTrackSystem.stats
    running,                                         \* RailTrackSystem.running
    ttc_critical,                                    \* DistanceEstimator.ttc_critical (from the config)
    distance_estimator,                              \* DistanceEstimator: focal_length, train_speed
    alert_log,                                       \* AlertManager.alert_history
    db_incidents,                                    \* IncidentLogger: the incidents table, by incident_id
    json_file,                                       \* IncidentLogger: the lines of the incidents JSON file
    now,                                             \* time.time()
    arg,                                             \* argument of a pure function under test
    ret,                                             \* the last call: its inputs and what it returned
    issued,                                          \* history: ids handed out by register, in order
    miss,                                            \* history: consecutive unmatched calls per track
    det_count,                                       \* history: frames in which a track got a detection,
                                                     \* counted up to min_consecutive_frames
    sent_alerts,                                     \* history: every send_alert call [timestamp, report]
    seen                                             \* history: per history entry, its appearances

vars == <<objects, disappeared, next_object_id, obstacle_history, confirmed_obstacles,
          frame_count, alert_history, suppressed_count, frame_width, frame_height, stats,
          running, ttc_critical, alert_log, db_incidents, json_file,
          distance_estimator, now, arg, ret, issued, miss, det_count, sent_alerts, seen>>

trackerVars == <<objects, disappeared, next_object_id, issued, miss, det_count>>

mfcVars == <<obstacle_history, confirmed_obstacles, frame_count, seen>>

filterVars == <<alert_history, suppressed_count>>

collaboratorVars == <<alert_log, db_incidents, json_file>>

runVars == <<running, ttc_critical, distance_estimator>>

systemVars == <<frame_width, frame_height, stats, sent_alerts, collaboratorVars, runVars>>

Tracker == [objects |-> objects, disappeared |-> disappeared,
            next_object_id |-> next_object_id, issued |-> issued]

Mfc == [obstacle_history |-> obstacle_history, confirmed_obstacles |-> confirmed_obstacles,
        frame_count |-> frame_count]

Logger == [db_incidents |-> db_incidents, json_file |-> json_file]

InitState ==
    /\ objects = TrackerInit.objects
    /\ disappeared = TrackerInit.disappeared
    /\ next_object_id = TrackerInit.next_object_id
    /\ issued = TrackerInit.issued
    /\ obstacle_history = MfcInit.obstacle_history
    /\ confirmed_obstacles = MfcInit.confirmed_obstacles
    /\ frame_count = MfcInit.frame_count
    /\ alert_history = <<>>
    /\ suppressed_count = 0
    /\ frame_width = None
    /\ frame_height = None
    /\ stats = [frames_processed |-> 0, detections_count |-> 0,
                confirmed_obstacles |-> 0, alerts_sent |-> 0]
    /\ running = FALSE
    /\ distance_estimator = EstimatorInit
    /\ alert_log = <<>>
    /\ db_incidents = << >>
    /\ json_file = <<>>
    /\ now = 1
    /\ ret = [op |-> "init"]
    /\ miss = << >>
    /\ det_count = << >>
    /\ sent_alerts = <<>>
    /\ seen = << >>

\* a system built without a config file: every component takes its defaults
DefaultConfig == ttc_critical = ttc_critical_default

Init == InitState /\ DefaultConfig /\ arg = None

\* ------------------------------------------------------------------------
\* Inputs
\* ------------------------------------------------------------------------
SeqsUpTo(S, n) == UNION {[1..k -> S] : k \in 0..n}

TrackerDets == {HumanOnTrack, HumanShifted, HumanMoved, VehicleOnTrack}

TrackerInputs == SeqsUpTo(TrackerDets, 2)

\* ------------------------------------------------------------------------
\* ObstacleTracker.update called on its own
\* ------------------------------------------------------------------------
\* history bookkeeping of an action that runs tracker_update
MissHistory(T0, T1, detections) ==
    LET unmatched == Range(unmatched_ids(T0, detections))
        fresh == Range(T1.issued) \ Range(T0.issued)
    IN  miss' = [id \in Range(T1.issued) |->
                    IF id \in fresh THEN 0
                    ELSE IF id \in DOMAIN T0.objects
                         THEN (IF id \in unmatched THEN miss[id] + 1 ELSE 0)
                         ELSE miss[id]]

DetHistory(T0, T1, detections) ==
    LET unmatched == Range(unmatched_ids(T0, detections))
        fresh == Range(T1.issued) \ Range(T0.issued)
    IN  det_count' = [id \in Range(T1.issued) |->
                         IF id \in fresh THEN 1
                         ELSE IF id \in DOMAIN T0.objects /\ id \notin unmatched
                              THEN Min2(det_count[id] + 1, min_consecutive_frames)
                              ELSE det_count[id]]

TrackerCall(detections) ==
      \E T1 \in {tracker_update(Tracker, detections)} :
            /\ T1.next_object_id <= MaxIds
            /\ objects' = T1.objects
            /\ disappeared' = T1.disappeared
            /\ next_object_id' = T1.next_object_id
            /\ issued' = T1.issued
            /\ MissHistory(Tracker, T1, detections)
            /\ ret' = [op |-> "tracker_update", detections |-> detections,
                       tracked_objects |-> T1.objects]
            /\ UNCHANGED <<mfcVars, filterVars, systemVars, now, arg, det_count>>

TrackerUpdate == \E detections \in TrackerInputs : TrackerCall(detections)

NextTracker == TrackerUpdate

SpecTracker == Init /\ [][NextTracker]_vars

\* ------------------------------------------------------------------------
\* MultiFrameConfirmation.update called on its own
\* ------------------------------------------------------------------------
MfcIds == {0}

MfcDets == {HumanOnTrack}

MfcTimeSteps == {1}

MfcInputs == UNION {[S -> MfcDets] : S \in SUBSET MfcIds}

\* history bookkeeping of an action that runs mfc_update on tracked_objects:
\* for every id that has a history entry after the call,
\*   last   the frame index of its latest appearance,
\*   run    its appearances since the entry was created or since the last
\*          absence of more than max_frame_gap calls,
\*   streak its appearances if it appeared in every call since the entry was
\*          created, else 0,
\*   regap  whether it was absent for more than max_frame_gap calls while confirmed
SeenHistory(M0, M1, tracked_objects) ==
    seen' = [id \in DOMAIN M1.obstacle_history |->
                LET known == id \in DOMAIN M0.obstacle_history
                    old == IF known THEN seen[id]
                           ELSE [last |-> None, run |-> 0, streak |-> 0, regap |-> FALSE]
                    gap == M1.frame_count - old.last - 1
                    broke == known /\ gap > max_frame_gap
                IN  IF id \in DOMAIN tracked_objects
                    THEN [last   |-> M1.frame_count,
                          run    |-> IF broke THEN 1 ELSE Min2(old.run + 1, DetectionsMaxLen),
                          streak |-> IF ~known THEN 1
                                     ELSE IF old.streak = 0 THEN 0
                                     ELSE Min2(old.streak + 1, DetectionsMaxLen),
                          regap  |-> old.regap \/ (broke /\ M0.obstacle_history[id].confirmed)]
                    ELSE [old EXCEPT !.streak = 0]]

MfcUpdate ==
    \E tracked_objects \in MfcInputs, dt \in MfcTimeSteps :
      \E r \in {mfc_update(Mfc, tracked_objects, now + dt)} :
            /\ frame_count < MaxMfcCalls
            /\ now' = now + dt
            /\ obstacle_history' = r.M.obstacle_history
            /\ confirmed_obstacles' = r.M.confirmed_obstacles
            /\ frame_count' = r.M.frame_count
            /\ SeenHistory(Mfc, r.M, tracked_objects)
            /\ ret' = [op |-> "mfc_update", tracked_objects |-> tracked_objects,
                       confirmed |-> r.confirmed]
            /\ UNCHANGED <<trackerVars, filterVars, systemVars, arg>>

NextMfc == MfcUpdate

SpecMfc == Init /\ [][NextMfc]_vars

\* ------------------------------------------------------------------------
\* SeverityClassifier.classify applied to one incident
\* ------------------------------------------------------------------------
Classes == {"human", "vehicle", "animal", "debris", "unknown"}

Zones == {"critical", "warning", "safe"}

TtcCutoffs == {10, 15, 20, 25, 30, 40, 60}

\* each cut-off with its two neighbours, zero and +infinity
TtcSamples == {0, 4500, Inf} \cup UNION {{c * 100 - 1, c * 100, c * 100 + 1} : c \in TtcCutoffs}

SeverityInputs ==
    [obstacle_class : Classes, zone : Zones, ttc : TtcSamples, is_static : BOOLEAN]

InitSeverity == InitState /\ DefaultConfig /\ arg \in SeverityInputs

ClassifyCall ==
    /\ ret.op = "init"
    /\ ret' = [op |-> "classify", incident |-> arg, severity |-> classify(arg)]
    /\ UNCHANGED <<trackerVars, mfcVars, filterVars, systemVars, now, arg>>

NextSeverity == ClassifyCall

SpecSeverity == InitSeverity /\ [][NextSeverity]_vars

\* ------------------------------------------------------------------------
\* RailTrackSystem.process_frame, one call per frame
\* ------------------------------------------------------------------------
\* what obstacle_detector.detect may return for a frame
FrameInputs ==
    { <<>>, <<HumanOnTrack>>, <<HumanMoved>>, <<HumanOnTrack, VehicleOnTrack>>,
      <<AnimalNearTrack>>, <<DebrisAside>> }

FrameTimeSteps == {1}

\* the microseconds that pass between two generate_report calls of one frame,
\* as datetime.now() reports them: none, or some
ClockTicks == {0, 1}

\* a cut-off that "ttc < cut-off" can be evaluated with: a number, not the
\* None a config leaves for "ttc_critical:" without a value
Comparable(cutoff) == cutoff # None

\* process_frame on a frame for which detect returns detections, dt seconds after
\* the previous one (a value bound by \E x \in {e} is e, evaluated once)
process_frame(detections, dt) ==
      \E current_time \in {now + dt},
         W \in {IF frame_width = None THEN FrameWidth ELSE frame_width},
         H \in {IF frame_height = None THEN FrameHeight ELSE frame_height},
         \* Step 2: Track obstacles
         T1 \in {tracker_update(Tracker, detections)} :
      \* Step 3: Multi-frame confirmation
      \E r \in {mfc_update(Mfc, T1.objects, current_time)} :
      \* Step 4: Filter false alerts
      \E filtered \in {filter(r.confirmed)} :
      \* Step 5: Classify track zones
      \E obstacles_with_zones \in {[i \in 1..Len(filtered) |-> with_zone(filtered[i], W, H)]} :
      \* Step 6: risk, severity, report, alert, log
      \E out \in {report_loop(obstacles_with_zones, current_time, 0, tick) : tick \in ClockTicks},
         \* assess_risk of the first obstacle: get_ttc_level compares with ttc_critical
         raised \in {filtered # <<>> /\ ~Comparable(ttc_critical)} :
            /\ stats.frames_processed < MaxFrames
            /\ T1.next_object_id <= MaxIds
            /\ now' = current_time
            /\ frame_width' = W
            /\ frame_height' = H
            /\ objects' = T1.objects
            /\ disappeared' = T1.disappeared
            /\ next_object_id' = T1.next_object_id
            /\ issued' = T1.issued
            /\ MissHistory(Tracker, T1, detections)
            /\ DetHistory(Tracker, T1, detections)
            /\ obstacle_history' = r.M.obstacle_history
            /\ confirmed_obstacles' = r.M.confirmed_obstacles
            /\ frame_count' = r.M.frame_count
            /\ SeenHistory(Mfc, r.M, T1.objects)
            /\ suppressed_count' = suppressed_count + filter_suppressed(r.confirmed)
            /\ IF raised
               THEN \* the TypeError leaves process_frame before any report is made
                    /\ stats' = [stats EXCEPT !.frames_processed = @ + 1,
                                              !.detections_count = @ + Len(detections)]
                    /\ ret' = [op |-> "process_frame_raised", detections |-> detections,
                               confirmed_obstacles |-> r.confirmed]
                    /\ UNCHANGED <<sent_alerts, collaboratorVars>>
               ELSE /\ sent_alerts' = sent_alerts \o
                           [i \in 1..Len(out.incidents) |->
                                [timestamp |-> current_time, report |-> out.incidents[i]]]
                    /\ alert_log' = alert_log \o alerts_logged(out.incidents)
                    /\ \E L \in {log_incidents(Logger, out.incidents)} :
                          /\ db_incidents' = L.db_incidents
                          /\ json_file' = L.json_file
                    /\ stats' = [frames_processed    |-> stats.frames_processed + 1,
                                 detections_count    |-> stats.detections_count + Len(detections),
                                 confirmed_obstacles |-> stats.confirmed_obstacles + Len(r.confirmed),
                                 alerts_sent         |-> stats.alerts_sent + Len(out.incidents)]
                    /\ ret' = [op |-> "process_frame", detections |-> detections,
                               confirmed_obstacles |-> r.confirmed,
                               filtered_obstacles |-> obstacles_with_zones,
                               incidents |-> out.incidents, events |-> out.events]
            /\ UNCHANGED <<alert_history, arg, ttc_critical, distance_estimator>>

\* process_frame called on its own, outside run
ProcessFrame ==
    /\ \E detections \in FrameInputs, dt \in FrameTimeSteps : process_frame(detections, dt)
    /\ UNCHANGED running

NextSystem == ProcessFrame

SpecSystem == Init /\ [][NextSystem]_vars

\* ------------------------------------------------------------------------
\* RailTrackSystem.process_frame on frames with malformed detections
\* ------------------------------------------------------------------------
\* the box of HumanOnTrack with its corners swapped: x2 < x1 and y2 < y1
HumanInverted == Det("human", 90, <<345, 280, 295, 180>>)

\* boxes of no height and of no width around the same centre
HumanFlat == Det("human", 90, <<295, 230, 345, 230>>)

HumanThin == Det("human", 90, <<320, 180, 320, 280>>)

MalformedInputs ==
    { <<>>, <<HumanInverted>>, <<HumanFlat>>, <<HumanThin>>,
      <<VehicleOnTrack>>, <<HumanInverted, VehicleOnTrack>> }

ProcessMalformedFrame ==
    /\ \E detections \in MalformedInputs, dt \in FrameTimeSteps : process_frame(detections, dt)
    /\ UNCHANGED running

NextMalformed == ProcessMalformedFrame

SpecMalformed == Init /\ [][NextMalformed]_vars

\* ------------------------------------------------------------------------
\* FalseAlertFilter.is_duplicate_alert called on its own
\* ------------------------------------------------------------------------
\* centres 49, 50 and 51 px apart from the first one, and another class in place
DupObstacles ==
    { Det("human", 90, <<100, 100, 150, 200>>), Det("human", 90, <<149, 100, 199, 200>>),
      Det("human", 90, <<150, 100, 200, 200>>), Det("human", 90, <<151, 100, 201, 200>>),
      Det("animal", 90, <<100, 100, 150, 200>>) }

DupTimeSteps == {0, 15, 31}

DupCalls == IF ret.op = "is_duplicate_alert" THEN ret.n ELSE 0

IsDuplicateAlert ==
    \E obstacle \in DupObstacles, dt \in DupTimeSteps :
      \E r \in {is_duplicate_alert(alert_history, obstacle, now + dt)} :
        /\ DupCalls < MaxDupCalls
        /\ now' = now + dt
        /\ alert_history' = r.alert_history
        /\ ret' = [op |-> "is_duplicate_alert", obstacle |-> obstacle,
                   result |-> r.result, n |-> DupCalls + 1]
        /\ UNCHANGED <<trackerVars, mfcVars, systemVars, suppressed_count, arg>>

NextDup == IsDuplicateAlert

SpecDup == Init /\ [][NextDup]_vars

\* ------------------------------------------------------------------------
\* FalseAlertFilter.filter called on its own, on well-formed detections
\* ------------------------------------------------------------------------
\* boxes on and one off each boundary: area 1000 and 999, ratio 10 and 10.05
\* both ways round, debris at confidence 0.60 and 0.59, a human at 0.59
FilterObstacles ==
    { Det("human", 90, <<100, 100, 125, 140>>), Det("human", 90, <<100, 100, 127, 137>>),
      Det("vehicle", 90, <<100, 100, 300, 120>>), Det("vehicle", 90, <<100, 100, 301, 120>>),
      Det("vehicle", 90, <<100, 100, 120, 301>>),
      Det("debris", 60, <<100, 100, 150, 150>>), Det("debris", 59, <<100, 100, 150, 150>>),
      Det("human", 59, <<100, 100, 150, 150>>) }

MaxFilterLen == 3

FilterInputs == SeqsUpTo(FilterObstacles, MaxFilterLen)

InitFilter == InitState /\ DefaultConfig /\ arg \in FilterInputs

FilterCall ==
    /\ ret.op = "init"
    /\ ret' = [op |-> "filter", obstacles |-> arg, filtered |-> filter(arg)]
    /\ suppressed_count' = suppressed_count + filter_suppressed(arg)
    /\ UNCHANGED <<trackerVars, mfcVars, systemVars, alert_history, now, arg>>

NextFilter == FilterCall

SpecFilter == InitFilter /\ [][NextFilter]_vars

\* ------------------------------------------------------------------------
\* CollisionRiskAssessor._calculate_risk_score applied to one obstacle
\* ------------------------------------------------------------------------
\* each band edge of the TTC contribution with its two neighbours, zero and +infinity
RiskTtcSamples == {0, Inf} \cup UNION {{c * 100 - 1, c * 100, c * 100 + 1} : c \in {10, 20, 40}}

RiskScoreInputs ==
    [obstacle_class : Classes, zone : Zones \cup {"unknown"}, ttc : RiskTtcSamples,
     is_static : BOOLEAN]

InitRiskScore == InitState /\ DefaultConfig /\ arg \in RiskScoreInputs

CalculateRiskScore ==
    /\ ret.op = "init"
    /\ ret' = [op |-> "calculate_risk_score", input |-> arg,
               risk_score |-> calculate_risk_score(arg.obstacle_class, arg.zone, arg.ttc,
                                                   arg.is_static)]
    /\ UNCHANGED <<trackerVars, mfcVars, filterVars, systemVars, now, arg>>

NextRiskScore == CalculateRiskScore

SpecRiskScore == InitRiskScore /\ [][NextRiskScore]_vars

\* ------------------------------------------------------------------------
\* CollisionRiskAssessor.assess_risk and the severity of the resulting incident
\* ------------------------------------------------------------------------
\* boxes 0, 1 and 100 px high around the centre of the critical zone
AssessBoxes == { <<295, 230, 345, 230>>, <<295, 230, 345, 231>>, <<295, 180, 345, 280>> }

AssessSpeeds == {0, default_train_speed}

AssessInputs ==
    [obstacle : [class : Classes, bbox : AssessBoxes, is_static : BOOLEAN],
     zone : Zones, train_speed : AssessSpeeds]

InitAssess == InitState /\ DefaultConfig /\ arg \in AssessInputs

\* assess_risk(obstacle, zone), then the incident process_frame builds from the
\* risk and its classify
AssessRisk ==
    /\ ret.op = "init"
    /\ \E risk \in {assess_risk(arg.obstacle, arg.zone, arg.train_speed, ttc_critical_default)} :
         ret' = [op |-> "assess_risk", input |-> arg, risk |-> risk,
                 severity |-> classify([obstacle_class |-> arg.obstacle.class,
                                        zone |-> arg.zone,
                                        ttc |-> risk.ttc_seconds,
                                        is_static |-> arg.obstacle.is_static])]
    /\ UNCHANGED <<trackerVars, mfcVars, filterVars, systemVars, now, arg>>

NextAssess == AssessRisk

SpecAssess == InitAssess /\ [][NextAssess]_vars

\* ------------------------------------------------------------------------
\* TrackSegmentation.classify_zone applied to one bbox of a 640x480 frame
\* ------------------------------------------------------------------------
\* centres on each zone edge and one pixel beyond it, and the centre of the band
ZoneCentreXs == {191, 192, 239, 240, 320, 400, 401, 448, 449}

ZoneCentreYs == {191, 192, 324, 456, 457}

\* boxes around (cx, cy) and around (cx + 0.5, cy + 0.5)
ZoneBoxes ==
    UNION { { <<cx - 10, cy - 10, cx + 10, cy + 10>>, <<cx - 10, cy - 10, cx + 11, cy + 11>> } :
            cx \in ZoneCentreXs, cy \in ZoneCentreYs }

InitZone == InitState /\ DefaultConfig /\ arg \in ZoneBoxes

\* initialize_frame_dimensions(frame), then classify_zone(bbox)
ClassifyZone ==
    /\ ret.op = "init"
    /\ frame_width' = FrameWidth
    /\ frame_height' = FrameHeight
    /\ ret' = [op |-> "classify_zone", bbox |-> arg,
               zone |-> classify_zone(arg, FrameWidth, FrameHeight)]
    /\ UNCHANGED <<trackerVars, mfcVars, filterVars, stats, sent_alerts, collaboratorVars,
                   runVars, now, arg>>

NextZone == ClassifyZone

SpecZone == InitZone /\ [][NextZone]_vars

\* ------------------------------------------------------------------------
\* SeverityClassifier.classify_batch applied to one list of incidents
\* ------------------------------------------------------------------------
\* two critical, one high, one medium and two low incidents
BatchIncidents ==
    { [obstacle_class |-> "human", zone |-> "critical", ttc |-> 1500, is_static |-> FALSE],
      [obstacle_class |-> "vehicle", zone |-> "critical", ttc |-> 1000, is_static |-> FALSE],
      [obstacle_class |-> "animal", zone |-> "critical", ttc |-> 4500, is_static |-> FALSE],
      [obstacle_class |-> "animal", zone |-> "warning", ttc |-> 4500, is_static |-> FALSE],
      [obstacle_class |-> "debris", zone |-> "safe", ttc |-> 4500, is_static |-> TRUE],
      [obstacle_class |-> "human", zone |-> "safe", ttc |-> Inf, is_static |-> FALSE] }

MaxBatchLen == 3

BatchInputs == SeqsUpTo(BatchIncidents, MaxBatchLen)

InitBatch == InitState /\ DefaultConfig /\ arg \in BatchInputs

ClassifyBatch ==
    /\ ret.op = "init"
    /\ ret' = [op |-> "classify_batch", incidents |-> arg, classified |-> classify_batch(arg)]
    /\ UNCHANGED <<trackerVars, mfcVars, filterVars, systemVars, now, arg>>

NextBatch == ClassifyBatch

SpecBatch == InitBatch /\ [][NextBatch]_vars

\* ------------------------------------------------------------------------
\* IncidentLogger.log_incident called on its own
\* ------------------------------------------------------------------------
\* reports of a human and of a vehicle on the track, made at two clock readings
LogReports ==
    { generate_report(incident_of(with_zone(obstacle, FrameWidth, FrameHeight)), 1, usec) :
        obstacle \in { [class |-> "human", confidence |-> 90, bbox |-> <<295, 180, 345, 280>>,
                        object_id |-> 0, duration |-> 4, is_static |-> TRUE, frame_count |-> 5],
                       [class |-> "vehicle", confidence |-> 85, bbox |-> <<280, 370, 360, 430>>,
                        object_id |-> 1, duration |-> 4, is_static |-> TRUE, frame_count |-> 5] },
        usec \in {0, 1} }

MaxLogCalls == 4

LogIncident ==
    \E incident \in LogReports :
      \E L \in {log_incident(Logger, incident)} :
        /\ Len(json_file) < MaxLogCalls
        /\ db_incidents' = L.db_incidents
        /\ json_file' = L.json_file
        /\ ret' = [op |-> "log_incident", incident |-> incident, result |-> TRUE]
        /\ UNCHANGED <<trackerVars, mfcVars, filterVars, frame_width, frame_height, stats,
                       sent_alerts, alert_log, runVars, now, arg>>

NextLogger == LogIncident

SpecLogger == Init /\ [][NextLogger]_vars

\* ------------------------------------------------------------------------
\* AlertManager.send_alert called on its own, under several configurations
\* ------------------------------------------------------------------------
Escalations ==
    { << >>,
      [critical |-> <<"local", "telegram", "sms">>, low |-> <<"log_only">>],
      [critical |-> <<"telegram", "local">>, low |-> <<"local">>] }

AlertConfigs ==
    [telegram_enabled : BOOLEAN, sms_enabled : BOOLEAN, local_enabled : BOOLEAN,
     escalation : Escalations]

InitAlert == InitState /\ DefaultConfig /\ arg \in AlertConfigs

\* what the senders may return: _send_telegram and _send_local_alert TRUE, or
\* FALSE after an exception; _send_sms always FALSE, sms_client never being set
ChannelOutcomes == {outcome \in [AlertChannels -> BOOLEAN] : ~outcome["sms"]}

\* one send_alert of a manager configured as arg
SendAlert ==
    \E severity \in {"critical", "low"}, outcome \in ChannelOutcomes :
      \E incident \in {[incident_id |-> <<now, 0>>, severity |-> severity,
                        type |-> "human", zone |-> "critical"]} :
      \E r \in {send_alert(arg, incident, outcome)} :
        /\ ret.op = "init"
        /\ alert_log' = alert_log \o r.logged
        /\ ret' = [op |-> "send_alert", config |-> arg, incident |-> incident,
                   outcome |-> outcome, attempts |-> r.attempts, success |-> r.success]
        /\ UNCHANGED <<trackerVars, mfcVars, filterVars, frame_width, frame_height, stats,
                       sent_alerts, db_incidents, json_file, runVars, now, arg>>

NextAlert == SendAlert

SpecAlert == InitAlert /\ [][NextAlert]_vars

\* ------------------------------------------------------------------------
\* RailTrackSystem.run: start, then process_frame per frame read, until a
\* read fails or an exception leaves the loop; stop() runs on the way out
\* ------------------------------------------------------------------------
\* the config either leaves ttc_critical at its default or has the key without a value
InitRun == InitState /\ ttc_critical \in {ttc_critical_default, None} /\ arg = None

Start ==
    /\ ~running
    /\ ret.op = "init"
    /\ running' = TRUE
    /\ ret' = [op |-> "start"]
    /\ UNCHANGED <<trackerVars, mfcVars, filterVars, frame_width, frame_height, stats,
                   sent_alerts, collaboratorVars, ttc_critical, distance_estimator, now, arg>>

RunInputs == { <<>>, <<HumanOnTrack>>, <<DebrisAside>> }

\* one iteration of the loop whose read_frame succeeds; an exception raised by
\* process_frame is not caught in run (only KeyboardInterrupt is) and ends it
\* through the finally clause
RunFrame ==
    /\ running
    /\ \E detections \in RunInputs, dt \in FrameTimeSteps : process_frame(detections, dt)
    /\ running' = (ret'.op = "process_frame")

\* read_frame fails: break, and stop()
ReadFails ==
    /\ running
    /\ running' = FALSE
    /\ ret' = [op |-> "stop"]
    /\ UNCHANGED <<trackerVars, mfcVars, filterVars, frame_width, frame_height, stats,
                   sent_alerts, collaboratorVars, ttc_critical, distance_estimator, now, arg>>

NextRun == Start \/ RunFrame \/ ReadFails

SpecRun == InitRun /\ [][NextRun]_vars

\* ------------------------------------------------------------------------
\* ObstacleTracker.update on detections that lie between two tracks or at the
\* gating distance of a track
\* ------------------------------------------------------------------------
MatchDets == {HumanOnTrack, HumanMoved, HumanBetween, HumanAtGate}

MatchInputs == SeqsUpTo(MatchDets, 2)

MatchUpdate == \E detections \in MatchInputs : TrackerCall(detections)

NextMatch == MatchUpdate

SpecMatch == Init /\ [][NextMatch]_vars

\* ------------------------------------------------------------------------
\* ObstacleTracker.update on frames in which every tracked object is detected
\* again, near its own track and away from the tracks of the others
\* ------------------------------------------------------------------------
VehicleAhead == Det("vehicle", 85, <<300, 370, 380, 430>>)

DebrisNudged == Det("debris", 90, <<40, 250, 100, 330>>)

SteadyDets ==
    {HumanOnTrack, HumanShifted, HumanBetween, HumanMoved, VehicleOnTrack, VehicleAhead,
     AnimalNearTrack, DebrisAside, DebrisNudged}

\* a detection and a track belong to the same object when their classes agree
SameObject(detection, track) == detection.class = track.class

\* every object appears at most once in the frame, every tracked object appears,
\* less than the gating distance from its track and at least the gating
\* distance from every other track
SteadyFrame(T, frame) ==
    /\ \A i, j \in 1..Len(frame) : i # j => ~SameObject(frame[i], frame[j])
    /\ \A id \in DOMAIN T.objects :
           \E i \in 1..Len(frame) : SameObject(frame[i], T.objects[id])
    /\ \A id \in DOMAIN T.objects : \A i \in 1..Len(frame) :
           SameObject(frame[i], T.objects[id])
               <=> Norm2Sq(get_center(frame[i].bbox), get_center(T.objects[id].bbox))
                       < 4 * GatingDistance * GatingDistance

SteadyInputs(T) == {frame \in SeqsUpTo(SteadyDets, MaxIds) : SteadyFrame(T, frame)}

SteadyUpdate == \E detections \in SteadyInputs(Tracker) : TrackerCall(detections)

NextSteady == SteadyUpdate

SpecSteady == Init /\ [][NextSteady]_vars

\* ------------------------------------------------------------------------
\* MultiFrameConfirmation used through all of its operations
\* ------------------------------------------------------------------------
ConfirmIds == {0}

\* an id that is never passed to update
UnknownId == 7

MaxConfirmTime == 12

ConfirmTimeSteps == {1, 6}

\* the tables passed as tracked_objects
ConfirmInputs == UNION {[S -> MfcDets] : S \in SUBSET ConfirmIds}

SetMfc(M) ==
    /\ obstacle_history' = M.obstacle_history
    /\ confirmed_obstacles' = M.confirmed_obstacles
    /\ frame_count' = M.frame_count

ConfirmUpdate ==
    \E tracked_objects \in ConfirmInputs, dt \in ConfirmTimeSteps :
      \E r \in {mfc_update(Mfc, tracked_objects, now + dt)} :
            /\ now + dt <= MaxConfirmTime
            /\ now' = now + dt
            /\ SetMfc(r.M)
            /\ ret' = [op |-> "mfc_update", tracked_objects |-> tracked_objects,
                       confirmed |-> r.confirmed]
            /\ UNCHANGED <<trackerVars, filterVars, systemVars, arg, seen>>

GetObstacleInfo ==
    \E obj_id \in ConfirmIds \cup {UnknownId} :
      \E r \in {get_obstacle_info(Mfc, obj_id)} :
            /\ SetMfc(r.M)
            /\ ret' = [op |-> "get_obstacle_info", obj_id |-> obj_id, info |-> r.info]
            /\ UNCHANGED <<trackerVars, filterVars, systemVars, arg, seen, now>>

GetAllConfirmed ==
    \E r \in {get_all_confirmed(Mfc)} :
        /\ SetMfc(r.M)
        /\ ret' = [op |-> "get_all_confirmed", confirmed |-> r.confirmed]
        /\ UNCHANGED <<trackerVars, filterVars, systemVars, arg, seen, now>>

GetStats ==
    /\ ret' = [op |-> "get_stats", stats |-> get_stats(Mfc)]
    /\ UNCHANGED <<trackerVars, mfcVars, filterVars, systemVars, arg, now>>

Reset ==
    /\ SetMfc(reset(Mfc))
    /\ ret' = [op |-> "reset"]
    /\ UNCHANGED <<trackerVars, filterVars, systemVars, arg, seen, now>>

NextConfirm == ConfirmUpdate \/ GetObstacleInfo \/ GetAllConfirmed \/ GetStats \/ Reset

SpecConfirm == Init /\ [][NextConfirm]_vars

\* ------------------------------------------------------------------------
\* Steps 2 and 3 of process_frame: ObstacleTracker.update, then
\* MultiFrameConfirmation.update on the table it returns
\* ------------------------------------------------------------------------
MaxLifeTime == 18

LifeTimeSteps == {1, 6}

LifeInputs == { <<>>, <<HumanOnTrack>>, <<HumanOnTrack, VehicleOnTrack>> }

TrackAndConfirm ==
    \E detections \in LifeInputs, dt \in LifeTimeSteps :
      \E T1 \in {tracker_update(Tracker, detections)} :
      \E r \in {mfc_update(Mfc, T1.objects, now + dt)} :
            /\ now + dt <= MaxLifeTime
            /\ T1.next_object_id <= MaxIds
            /\ now' = now + dt
            /\ objects' = T1.objects
            /\ disappeared' = T1.disappeared
            /\ next_object_id' = T1.next_object_id
            /\ issued' = T1.issued
            /\ SetMfc(r.M)
            /\ ret' = [op |-> "track_and_confirm", detections |-> detections,
                       tracked_objects |-> T1.objects, confirmed |-> r.confirmed]
            /\ UNCHANGED <<filterVars, systemVars, arg, seen, miss, det_count>>

NextLife == TrackAndConfirm

SpecLife == Init /\ [][NextLife]_vars

\* ------------------------------------------------------------------------
\* The operations of DistanceEstimator on one estimator
\* ------------------------------------------------------------------------
SpeedInputs == {-10, 0, 30, 60, 90, 120}

\* known_distance (m), known_height (tenths of a metre), pixel_height
CalibrationInputs == {10, 20} \X {10, 20} \X {50, 100}

UpdateTrainSpeed ==
    \E speed_kmh \in SpeedInputs :
        /\ distance_estimator' = update_train_speed(distance_estimator, speed_kmh)
        /\ ret' = [op |-> "update_train_speed", speed_kmh |-> speed_kmh]
        /\ UNCHANGED <<trackerVars, mfcVars, filterVars, frame_width, frame_height, stats,
                       sent_alerts, collaboratorVars, running, ttc_critical, now, arg>>

CalibrateFocalLength ==
    \E c \in CalibrationInputs :
      \E r \in {calibrate_focal_length(distance_estimator, c[1], c[2], c[3])} :
        /\ distance_estimator' = r.E
        /\ ret' = [op |-> "calibrate_focal_length", focal_length |-> r.focal_length]
        /\ UNCHANGED <<trackerVars, mfcVars, filterVars, frame_width, frame_height, stats,
                       sent_alerts, collaboratorVars, running, ttc_critical, now, arg>>

\* calculate_ttc(estimate_distance(obstacle)) at the estimator's own speed
CalculateTtc ==
    \E obstacle \in {HumanOnTrack, VehicleOnTrack, DebrisAside} :
        /\ ret' = [op |-> "calculate_ttc", obstacle |-> obstacle,
                   ttc |-> estimator_ttc(distance_estimator, obstacle)]
        /\ UNCHANGED <<trackerVars, mfcVars, filterVars, systemVars, now, arg>>

NextEstimator == UpdateTrainSpeed \/ CalibrateFocalLength \/ CalculateTtc

SpecEstimator == Init /\ [][NextEstimator]_vars

\* ------------------------------------------------------------------------
\* SeverityClassifier.classify and _calculate_risk_score applied to one
\* incident, to the same incident at a lower ttc and to the same incident in
\* each zone
\* ------------------------------------------------------------------------
OrderInputs ==
    {i \in [obstacle_class : Classes, zone : Zones, ttc : TtcSamples, lower_ttc : TtcSamples,
            is_static : BOOLEAN] : i.lower_ttc <= i.ttc}

InitOrder == InitState /\ DefaultConfig /\ arg \in OrderInputs

\* the priority of the severity of arg with some of its fields replaced
severity_priority_of(obstacle_class, zone, ttc, static) ==
    get_severity_priority(classify([obstacle_class |-> obstacle_class, zone |-> zone,
                                    ttc |-> ttc, is_static |-> static]))

ClassifyAndScore ==
    /\ ret.op = "init"
    /\ ret' = [op |-> "classify_and_score", input |-> arg,
               severity_priority |->
                   [ttc \in {arg.ttc, arg.lower_ttc} |->
                       severity_priority_of(arg.obstacle_class, arg.zone, ttc, arg.is_static)],
               risk_score |->
                   [ttc \in {arg.ttc, arg.lower_ttc} |->
                       calculate_risk_score(arg.obstacle_class, arg.zone, ttc, arg.is_static)],
               priority_in_zone |->
                   [zone \in Zones |->
                       severity_priority_of(arg.obstacle_class, zone, arg.ttc, arg.is_static)]]
    /\ UNCHANGED <<trackerVars, mfcVars, filterVars, systemVars, now, arg>>

NextOrder == ClassifyAndScore

SpecOrder == InitOrder /\ [][NextOrder]_vars

\* ------------------------------------------------------------------------
\* Properties of ObstacleTracker (SpecTracker)
\* ------------------------------------------------------------------------
StrictlyIncreasing(s) == \A i, j \in 1..Len(s) : i < j => s[i] < s[j]

\* C2: over any sequence of update calls the ids are handed out in strictly
\* increasing order, every track carries an id that was handed out exactly once,
\* a track created by a call gets an id above every id handed out before, and
\* the id of a deregistered track never names a track again.
C2_IdsNeverReused ==
    [][ /\ StrictlyIncreasing(issued')
        /\ DOMAIN objects' \subseteq Range(issued')
        /\ \A id \in (DOMAIN objects') \ (DOMAIN objects) :
               \A old \in Range(issued) : id > old
        /\ \A id \in Range(issued) \ (DOMAIN objects) : id \notin DOMAIN objects'
      ]_vars

\* a track was deregistered and a track with a larger id is live
C2_Witness ==
    /\ ret.op = "tracker_update"
    /\ \E dead \in Range(issued) \ (DOMAIN objects) :
           \E live \in DOMAIN objects : live > dead /\ disappeared[live] = 0

\* C3: a track unmatched in k consecutive update calls is in the table while
\* k <= max_disappeared and is removed by the call that makes k reach
\* max_disappeared + 1; its counter equals k, so a match resets it to 0; a call
\* with no detections counts as unmatched for every track and creates no track.
C3_DisappearLifecycle ==
    [][ /\ \A id \in DOMAIN objects :
               /\ (id \in DOMAIN objects') <=> (miss'[id] <= max_disappeared)
               /\ (id \in DOMAIN objects') => disappeared'[id] = miss'[id]
               /\ (id \notin DOMAIN objects') => miss'[id] = max_disappeared + 1
        /\ ret'.detections = <<>> =>
               /\ next_object_id' = next_object_id
               /\ DOMAIN objects' \subseteq DOMAIN objects
               /\ \A id \in DOMAIN objects : miss'[id] = miss[id] + 1
      ]_vars

\* a call with no detections has just removed a track on its 6th consecutive miss,
\* while another track that had been matched again in between is kept
C3_Witness ==
    /\ ret.op = "tracker_update"
    /\ ret.detections = <<>>
    /\ \E id \in Range(issued) \ (DOMAIN objects) :
           /\ miss[id] = max_disappeared + 1
           /\ \E other \in DOMAIN objects : other < id /\ disappeared[other] = max_disappeared

\* ------------------------------------------------------------------------
\* Properties of MultiFrameConfirmation (SpecMfc)
\* ------------------------------------------------------------------------
\* the ids in the list returned by the last update
Returned == {ret.confirmed[i].object_id : i \in 1..Len(ret.confirmed)}

\* C4: a track passed to update in every call since its first appearance is not
\* returned, and not flagged confirmed, in its first min_consecutive_frames - 1
\* calls, and is returned and flagged confirmed in call min_consecutive_frames.
C4_ConfirmedOnLastFrame ==
    ret.op = "mfc_update" =>
        \A id \in DOMAIN obstacle_history :
            /\ seen[id].streak \in 1..(min_consecutive_frames - 1) =>
                   /\ id \notin Returned
                   /\ ~obstacle_history[id].confirmed
                   /\ id \notin DOMAIN confirmed_obstacles
            /\ seen[id].streak = min_consecutive_frames =>
                   /\ id \in Returned
                   /\ obstacle_history[id].confirmed
                   /\ id \in DOMAIN confirmed_obstacles

\* the call that is the track's min_consecutive_frames-th in a row returns it
C4_Witness ==
    /\ ret.op = "mfc_update"
    /\ \E id \in DOMAIN obstacle_history :
           /\ seen[id].streak = min_consecutive_frames
           /\ id \in Returned
           /\ frame_count > min_consecutive_frames

\* C5: a track that was confirmed, then absent for more than max_frame_gap calls
\* without being purged, is returned by a later call in which it appears exactly
\* when min_consecutive_frames appearances have accumulated since its last
\* absence of more than max_frame_gap calls.
C5_ReconfirmAfterGap ==
    ret.op = "mfc_update" =>
        \A id \in DOMAIN ret.tracked_objects :
            seen[id].regap => (id \in Returned <=> seen[id].run >= min_consecutive_frames)

\* the call that completes the fresh run after the gap returns the track
C5_Witness ==
    /\ ret.op = "mfc_update"
    /\ \E id \in DOMAIN ret.tracked_objects :
           /\ seen[id].regap
           /\ seen[id].run = min_consecutive_frames
           /\ id \in Returned

\* ------------------------------------------------------------------------
\* Properties of SeverityClassifier.classify (SpecSeverity)
\* ------------------------------------------------------------------------
\* below is the set of ttc cut-offs of the rule, in seconds: empty or one value
Rule(classes, zones, statics, below) ==
    [classes |-> classes, zones |-> zones, statics |-> statics, below |-> below]

\* the three ordered predicate groups of the severity rules, as tables
CriticalRules ==
    { Rule({"human"}, {"critical"}, BOOLEAN, {20}),
      Rule({"vehicle"}, {"critical"}, BOOLEAN, {15}),
      Rule(Classes, {"critical"}, {TRUE}, {25}),
      Rule({"human", "vehicle"}, {"critical"}, BOOLEAN, {10}) }

HighRules ==
    { Rule({"human"}, {"warning"}, BOOLEAN, {40}),
      Rule({"animal"}, {"critical"}, BOOLEAN, {}),
      Rule({"debris"}, {"critical"}, {TRUE}, {}),
      Rule({"vehicle"}, {"warning"}, BOOLEAN, {30}),
      Rule(Classes, {"critical"}, BOOLEAN, {40}) }

MediumRules ==
    { Rule({"animal"}, {"warning"}, BOOLEAN, {}),
      Rule({"debris"}, {"critical"}, BOOLEAN, {}),
      Rule({"vehicle"}, {"warning"}, BOOLEAN, {60}),
      Rule({"human"}, Zones, BOOLEAN, {60}),
      Rule(Classes, {"critical"}, BOOLEAN, {60}) }

\* strict comparison: a ttc exactly at the cut-off does not satisfy the rule
Satisfies(x, rule) ==
    /\ x.obstacle_class \in rule.classes
    /\ x.zone \in rule.zones
    /\ x.is_static \in rule.statics
    /\ \A cutoff \in rule.below : x.ttc # Inf /\ x.ttc - cutoff * 100 < 0

FirstMatch(x) ==
    CASE \E rule \in CriticalRules : Satisfies(x, rule) -> "critical"
      [] \E rule \in HighRules : Satisfies(x, rule) -> "high"
      [] \E rule \in MediumRules : Satisfies(x, rule) -> "medium"
      [] OTHER -> "low"

\* C6: classify equals the first-match evaluation of the rule tables on every
\* sampled (class, zone, ttc, is_static); {human, critical, ttc 15} is critical
\* and {animal, warning, ttc 45} is medium.
C6_ClassifyFirstMatch ==
    /\ ret.op = "classify" => ret.severity = FirstMatch(ret.incident)
    /\ \A st \in BOOLEAN :
           /\ classify([obstacle_class |-> "human", zone |-> "critical",
                        ttc |-> 1500, is_static |-> st]) = "critical"
           /\ classify([obstacle_class |-> "animal", zone |-> "warning",
                        ttc |-> 4500, is_static |-> st]) = "medium"

\* a human on the track with ttc exactly 20 s is high, not critical
C6_Witness ==
    /\ ret.op = "classify"
    /\ ret.incident = [obstacle_class |-> "human", zone |-> "critical",
                       ttc |-> 2000, is_static |-> FALSE]
    /\ ret.severity = "high"

\* ------------------------------------------------------------------------
\* Properties of RailTrackSystem.process_frame (SpecSystem)
\* ------------------------------------------------------------------------
\* C1: a track is returned as confirmed only after the object was detected in at
\* least min_consecutive_frames frames (so an object detected in one frame only
\* is never confirmed).
C1_ConfirmedOnlyAfterMinDetections ==
    ret.op = "process_frame" =>
        \A i \in 1..Len(ret.confirmed_obstacles) :
            det_count[ret.confirmed_obstacles[i].object_id] >= min_consecutive_frames

ReportFor(obstacle, report) ==
    /\ report.type = obstacle.class
    /\ report.bbox = obstacle.bbox
    /\ report.zone = obstacle.zone

Submitted(to, report) ==
    \E k \in 1..Len(ret.events) : ret.events[k].to = to /\ ret.events[k].report = report

\* C7: every confirmed obstacle that survives the filter and is classified medium,
\* high or critical has a report in the frame's incidents that was handed to the
\* alert manager and to the incident logger; one classified low has none.
C7_MediumAndAboveReported ==
    ret.op = "process_frame" =>
        \A i \in 1..Len(ret.filtered_obstacles) :
            LET obstacle == ret.filtered_obstacles[i]
                severity == classify(incident_of(obstacle))
                reported == \E j \in 1..Len(ret.incidents) :
                                /\ ReportFor(obstacle, ret.incidents[j])
                                /\ Submitted("send_alert", ret.incidents[j])
                                /\ Submitted("log_incident", ret.incidents[j])
            IN  reported <=> severity \in {"medium", "high", "critical"}

ReportsTo(to) ==
    LET calls == SelectSeq(ret.events, LAMBDA e : e.to = to)
    IN  [k \in 1..Len(calls) |-> calls[k].report]

C10_OneAlertPerWindow ==
    \A i, j \in 1..Len(sent_alerts) :
        (/\ i < j
         /\ sent_alerts[i].report.type = sent_alerts[j].report.type
         /\ is_similar_location(sent_alerts[i].report.bbox, sent_alerts[j].report.bbox))
        => sent_alerts[j].timestamp - sent_alerts[i].timestamp > time_window

\* ------------------------------------------------------------------------
\* Properties of FalseAlertFilter.is_duplicate_alert (SpecDup)
\* ------------------------------------------------------------------------
\* an entry of the same class, at most time_window old, with its bbox centre less
\* than SimilarThreshold away
Matches(entry, obstacle, current_time) ==
    /\ entry.class = obstacle.class
    /\ current_time - entry.timestamp <= time_window
    /\ Norm2Sq(get_center(entry.bbox), get_center(obstacle.bbox))
           < (2 * SimilarThreshold) * (2 * SimilarThreshold)

AreaOf(bbox) == (bbox[3] - bbox[1]) * (bbox[4] - bbox[2])

LongerSide(bbox) == Max2(bbox[3] - bbox[1], bbox[4] - bbox[2])

ShorterSide(bbox) == Min2(bbox[3] - bbox[1], bbox[4] - bbox[2])

Kept(o) ==
    /\ ~(AreaOf(o.bbox) < 1000)
    /\ ~(LongerSide(o.bbox) > 10 * ShorterSide(o.bbox))
    /\ ~(o.class = "debris" /\ o.confidence < 60)

\* C17: filter returns exactly the obstacles to which no rejection rule applies,
\* in input order; an area of exactly 1000, a ratio of exactly 10 and a debris
\* confidence of exactly 0.6 are kept, and each rule rejects on its own.
C17_FilterKeepsIffNoRule ==
    /\ ret.op = "filter" => ret.filtered = SelectSeq(ret.obstacles, Kept)
    /\ filter(<<Det("human", 90, <<100, 100, 125, 140>>)>>) # <<>>
    /\ filter(<<Det("vehicle", 90, <<100, 100, 300, 120>>)>>) # <<>>
    /\ filter(<<Det("debris", 60, <<100, 100, 150, 150>>)>>) # <<>>
    /\ filter(<<Det("human", 90, <<100, 100, 127, 137>>)>>) = <<>>
    /\ filter(<<Det("vehicle", 90, <<100, 100, 301, 120>>)>>) = <<>>
    /\ filter(<<Det("debris", 59, <<100, 100, 150, 150>>)>>) = <<>>

\* a call that keeps the first and the third input, both on a boundary, in
\* their input order and drops the elongated one between them
C17_Witness ==
    /\ ret.op = "filter"
    /\ ret.obstacles = << Det("vehicle", 90, <<100, 100, 300, 120>>),
                          Det("vehicle", 90, <<100, 100, 120, 301>>),
                          Det("human", 90, <<100, 100, 125, 140>>) >>
    /\ ret.filtered = << Det("vehicle", 90, <<100, 100, 300, 120>>),
                         Det("human", 90, <<100, 100, 125, 140>>) >>
    /\ suppressed_count = 1

\* ------------------------------------------------------------------------
\* Properties of process_frame on malformed detections (SpecMalformed)
\* ------------------------------------------------------------------------
Degenerate(bbox) == bbox[3] <= bbox[1] \/ bbox[4] <= bbox[2]

\* C11: a detection with a degenerate bbox creates or updates no track, does not
\* pass the filter, is not scored with a ttc of 0 and leads to no incident.
C11_DegenerateDropped ==
    /\ \A id \in DOMAIN objects : ~Degenerate(objects[id].bbox)
    /\ ret.op = "process_frame" =>
          /\ \A i \in 1..Len(ret.filtered_obstacles) :
                 ~Degenerate(ret.filtered_obstacles[i].bbox)
          /\ \A i \in 1..Len(ret.incidents) : ~Degenerate(ret.incidents[i].bbox)
    /\ \A i \in 1..Len(sent_alerts) : ~Degenerate(sent_alerts[i].report.bbox)

\* ------------------------------------------------------------------------
\* Properties of _calculate_risk_score (SpecRiskScore)
\* ------------------------------------------------------------------------
\* the tables of the specification: base by class, factor by zone (in tenths),
\* bonus by the first ttc band (ttc in hundredths of a second)
BaseScore(c) ==
    IF c \in {"human", "vehicle", "animal", "debris"}
    THEN [human |-> 40, vehicle |-> 35, animal |-> 30, debris |-> 20][c]
    ELSE 25

ZoneFactor(z) ==
    IF z \in {"critical", "warning", "safe"}
    THEN [critical |-> 20, warning |-> 15, safe |-> 5][z]
    ELSE 10

TtcBands == << [below |-> 10, bonus |-> 30], [below |-> 20, bonus |-> 20],
               [below |-> 40, bonus |-> 10] >>

TtcBonus(ttc) ==
    LET hits == {i \in 1..Len(TtcBands) : ttc # Inf /\ ttc < TtcBands[i].below * 100}
    IN  IF hits = {} THEN 0
        ELSE TtcBands[CHOOSE i \in hits : \A j \in hits : i <= j].bonus

ExpectedScore(x) ==
    Min2(100 * 10, BaseScore(x.obstacle_class) * ZoneFactor(x.zone)
                     + TtcBonus(x.ttc) * 10 + (IF x.is_static THEN 10 * 10 ELSE 0))

\* C19: for every class, zone, ttc and is_static the score is
\* min(100, base * factor + ttc_bonus + static_bonus) and lies in [0, 100]
\* (scores are in tenths of a point).
C19_RiskScoreFormula ==
    ret.op = "calculate_risk_score" =>
        /\ ret.risk_score = ExpectedScore(ret.input)
        /\ ret.risk_score >= 0
        /\ ret.risk_score <= 1000

\* a static human on the track 9.99 s ahead: 40 * 2.0 + 30 + 10 = 120, capped at 100
C19_Witness ==
    /\ ret.op = "calculate_risk_score"
    /\ ret.input = [obstacle_class |-> "human", zone |-> "critical", ttc |-> 999,
                    is_static |-> TRUE]
    /\ ret.risk_score = 1000

\* ------------------------------------------------------------------------
\* Properties of assess_risk at zero speed or zero pixel height (SpecAssess)
\* ------------------------------------------------------------------------
ZeroSpeedOrHeight(x) == x.train_speed = 0 \/ x.obstacle.bbox[4] - x.obstacle.bbox[2] = 0

\* the severity the rules without a ttc cut-off give
SeverityWithoutTtc(x) ==
    CASE \E rule \in HighRules : rule.below = {} /\ Satisfies(x, rule) -> "high"
      [] \E rule \in MediumRules : rule.below = {} /\ Satisfies(x, rule) -> "medium"
      [] OTHER -> "low"

\* C15 as stated: at zero speed or zero pixel height the ttc is +infinity and
\* ttc_level, risk_level and severity are all low, whatever the class, zone and
\* motion state.
C15_InfiniteTtcAllLow ==
    (ret.op = "assess_risk" /\ ZeroSpeedOrHeight(ret.input)) =>
        /\ ret.risk.ttc_seconds = Inf
        /\ ret.risk.ttc_level = "low"
        /\ ret.risk.risk_level = "low"
        /\ ret.severity = "low"

\* C15 amended: at zero speed or zero pixel height the ttc is +infinity, the
\* ttc_level is low, the score gets no TTC contribution and no severity rule
\* with a ttc cut-off applies; risk_level and severity are what class, zone
\* and motion state give on their own.
C15_InfiniteTtcAddsNoRisk ==
    (ret.op = "assess_risk" /\ ZeroSpeedOrHeight(ret.input)) =>
        LET x == [obstacle_class |-> ret.input.obstacle.class, zone |-> ret.input.zone,
                  ttc |-> Inf, is_static |-> ret.input.obstacle.is_static]
        IN  /\ ret.risk.ttc_seconds = Inf
            /\ ret.risk.ttc_level = "low"
            /\ ret.risk.risk_score =
                   Min2(1000, BaseScore(x.obstacle_class) * ZoneFactor(x.zone)
                                + (IF x.is_static THEN 100 ELSE 0))
            /\ ret.risk.risk_level = get_risk_level(ret.risk.risk_score)
            /\ ret.severity = SeverityWithoutTtc(x)

\* a moving human on the track seen from a stopped train: ttc +infinity, level
\* low, yet a score of 80 (critical); and the severity is low
C15_Witness ==
    /\ ret.op = "assess_risk"
    /\ ret.input.train_speed = 0
    /\ ret.input.obstacle = [class |-> "human", bbox |-> <<295, 180, 345, 280>>,
                             is_static |-> FALSE]
    /\ ret.input.zone = "critical"
    /\ ret.risk.ttc_seconds = Inf
    /\ ret.risk.ttc_level = "low"
    /\ ret.risk.risk_level = "critical"
    /\ ret.severity = "low"

\* ------------------------------------------------------------------------
\* Properties of classify_zone (SpecZone)
\* ------------------------------------------------------------------------
\* with (sx, sy) = (x1 + x2, y1 + y2) = twice the centre:
\*   norm_y in [top, bottom]   <=>  top% * 2H <= 100 sy <= bottom% * 2H
\*   |norm_x - 0.5| <= w / 2   <=>  -w% * W <= 100 (sx - W) <= w% * W
InBand(bbox, H) ==
    /\ 40 * 2 * H <= 100 * (bbox[2] + bbox[4])
    /\ 100 * (bbox[2] + bbox[4]) <= 95 * 2 * H

WithinWidth(bbox, W, w) ==
    /\ -(w * W) <= 100 * (bbox[1] + bbox[3] - W)
    /\ 100 * (bbox[1] + bbox[3] - W) <= w * W

ExpectedZone(bbox, W, H) ==
    CASE ~InBand(bbox, H) -> "safe"
      [] InBand(bbox, H) /\ WithinWidth(bbox, W, 25) -> "critical"
      [] InBand(bbox, H) /\ ~WithinWidth(bbox, W, 25) /\ WithinWidth(bbox, W, 40) -> "warning"
      [] OTHER -> "safe"

\* C18: classify_zone is safe outside the vertical band [track_top_y,
\* track_bottom_y], whose ends belong to the band; inside it critical up to and
\* including critical_zone_width / 2 from the centre line, warning up to and
\* including warning_zone_width / 2, else safe; a bbox centred at (0.5 W, the
\* midpoint of the band) is critical.
C18_ZoneByBandAndOffset ==
    /\ ret.op = "classify_zone" =>
           ret.zone = ExpectedZone(ret.bbox, frame_width, frame_height)
    /\ classify_zone(<<310, 314, 330, 334>>, 640, 480) = "critical"

\* a centre on the top edge of the band and on the edge of the critical zone
C18_Witness ==
    /\ ret.op = "classify_zone"
    /\ ret.bbox = <<230, 182, 250, 202>>
    /\ ret.zone = "critical"

\* ------------------------------------------------------------------------
\* Properties of classify_batch (SpecBatch)
\* ------------------------------------------------------------------------
PriorityOf(incident) ==
    [critical |-> 4, high |-> 3, medium |-> 2, low |-> 1][FirstMatch(incident)]

WithoutSeverity(c) ==
    [obstacle_class |-> c.obstacle_class, zone |-> c.zone, ttc |-> c.ttc,
     is_static |-> c.is_static]

\* the inputs of priority p, in input order
OfPriority(incidents, p) ==
    LET Is(x) == PriorityOf(x) = p
    IN  SelectSeq(incidents, Is)

\* C20: classify_batch returns one record per input incident, in descending
\* severity_priority (critical 4, high 3, medium 2, low 1), incidents of equal
\* priority in their input order.
C20_BatchSortedStable ==
    ret.op = "classify_batch" =>
        /\ Len(ret.classified) = Len(ret.incidents)
        /\ \A i \in 1..Len(ret.classified) :
               ret.classified[i].severity_priority = PriorityOf(WithoutSeverity(ret.classified[i]))
        /\ [i \in 1..Len(ret.classified) |-> WithoutSeverity(ret.classified[i])]
             = OfPriority(ret.incidents, 4) \o OfPriority(ret.incidents, 3)
                 \o OfPriority(ret.incidents, 2) \o OfPriority(ret.incidents, 1)

\* two low incidents with a critical one between them: the critical one comes
\* first, the two low ones keep their order
C20_Witness ==
    /\ ret.op = "classify_batch"
    /\ Len(ret.incidents) = 3
    /\ ret.incidents[1].obstacle_class = "debris"
    /\ ret.incidents[2].obstacle_class = "vehicle"
    /\ ret.incidents[3] = [obstacle_class |-> "human", zone |-> "safe", ttc |-> Inf,
                           is_static |-> FALSE]
    /\ ret.classified[1].severity = "critical"
    /\ WithoutSeverity(ret.classified[2]) = ret.incidents[1]
    /\ WithoutSeverity(ret.classified[3]) = ret.incidents[3]
    /\ ret.classified[2].severity_priority = 1
    /\ ret.classified[3].severity_priority = 1

\* ------------------------------------------------------------------------
\* Properties of the incident ids and of the persisted records
\* ------------------------------------------------------------------------
\* C12: any two reports generated carry different incident_ids, also two
\* reports of one frame between which the clock did not advance; so the row
\* persisted for a report is never replaced by that of another incident.
C12_IncidentIdsUnique ==
    /\ \A i, j \in 1..Len(sent_alerts) :
           i # j => sent_alerts[i].report.incident_id # sent_alerts[j].report.incident_id
    /\ \A i \in 1..Len(sent_alerts) :
           /\ sent_alerts[i].report.incident_id \in DOMAIN db_incidents
           /\ db_incidents[sent_alerts[i].report.incident_id] = incident_row(sent_alerts[i].report)

\* only a call of log_incident with an incident_id that is already stored
Resubmitted ==
    /\ ret'.op = "log_incident"
    /\ ret'.incident.incident_id \in DOMAIN db_incidents
    /\ db_incidents[ret'.incident.incident_id] = incident_row(ret'.incident)

\* C13: submitting an incident that was submitted before leaves the incidents
\* table and the JSON incident file as they were: no second record is added.
C13_ResubmissionIdempotent ==
    [][Resubmitted => (db_incidents' = db_incidents /\ json_file' = json_file)]_vars

\* ------------------------------------------------------------------------
\* Properties of AlertManager.send_alert (SpecAlert)
\* ------------------------------------------------------------------------
\* the enabled channels of the escalation entry of the severity, in list order
ChannelsDue(config, severity) ==
    LET Enabled(channel) ==
            \/ channel = "telegram" /\ config.telegram_enabled
            \/ channel = "sms" /\ config.sms_enabled
            \/ channel = "local" /\ config.local_enabled
    IN  IF severity \in DOMAIN config.escalation
        THEN SelectSeq(config.escalation[severity], Enabled)
        ELSE <<>>

\* C14: send_alert attempts every enabled channel of the escalation entry of
\* the incident's severity, in list order, whether or not an earlier one
\* failed, and returns TRUE iff every attempted channel reported success.
C14_AllChannelsAttempted ==
    ret.op = "send_alert" =>
        /\ ret.attempts = ChannelsDue(ret.config, ret.incident.severity)
        /\ ret.success = (\A i \in 1..Len(ret.attempts) : ret.outcome[ret.attempts[i]])

\* the first of three channels fails: the other two are still attempted, and
\* the result is FALSE
C14_Witness ==
    /\ ret.op = "send_alert"
    /\ ret.incident.severity = "critical"
    /\ ret.outcome = [telegram |-> TRUE, sms |-> FALSE, local |-> FALSE]
    /\ ret.attempts = <<"local", "telegram", "sms">>
    /\ ret.success = FALSE

\* ------------------------------------------------------------------------
\* Properties of the run loop (SpecRun)
\* ------------------------------------------------------------------------
\* C16: when the classification of a frame fails, the frame is skipped and the
\* run loop is still running, ready to process the following frames.
C16_FailedFrameSkipped ==
    ret.op = "process_frame_raised" => running

\* ------------------------------------------------------------------------
\* The track table after update (SpecTracker)
\* ------------------------------------------------------------------------
\* C29: after every update the track table and the counter table have the same
\* ids, every counter is within 0..max_disappeared, every live id is below
\* next_object_id and the table returned by the call is the live track table;
\* a track the call leaves unmatched and keeps still carries the detection it
\* was last matched with.
C29_TablesConsistent ==
    /\ [](/\ DOMAIN objects = DOMAIN disappeared
          /\ \A id \in DOMAIN disappeared : disappeared[id] \in 0..max_disappeared
          /\ \A id \in DOMAIN objects : id < next_object_id
          /\ ret.op = "tracker_update" => ret.tracked_objects = objects)
    /\ [][\A id \in (DOMAIN objects) \cap (DOMAIN objects') :
              disappeared'[id] > 0 => objects'[id] = objects[id]]_vars

\* the returned table holds a track that has gone unmatched max_disappeared
\* times beside a track matched by this call
C29_Witness ==
    /\ ret.op = "tracker_update"
    /\ Len(ret.detections) = 1
    /\ \E id, other \in DOMAIN ret.tracked_objects :
           /\ disappeared[id] = max_disappeared
           /\ disappeared[other] = 0

\* ------------------------------------------------------------------------
\* Matching of detections to tracks (SpecMatch)
\* ------------------------------------------------------------------------
\* the track each detection of the list goes to: the nearest track of `tracks`
\* that no earlier detection of the list went to, the lowest id among equally
\* near ones, if it is nearer than the gate; otherwise the next unused id
MatchTargets(tracks, next_id, detections) ==
    LET existing == DOMAIN tracks
        dist(i, id) == Norm2Sq(get_center(detections[i].bbox), get_center(tracks[id].bbox))
        target[i \in 1..Len(detections)] ==
            LET cands == existing \ {target[j] : j \in 1..(i - 1)}
                near == {id \in cands : \A o \in cands : dist(i, id) <= dist(i, o)}
                fresh == Cardinality({j \in 1..(i - 1) : target[j] \notin existing})
            IN  IF near # {} /\ dist(i, MinOf(near)) < 4 * GatingDistance * GatingDistance
                THEN MinOf(near)
                ELSE next_id + fresh
    IN  target

\* C23: in an update call with detections and existing tracks, the detections
\* are taken in list order and each goes to the nearest track that existed at
\* the start of the call and is not yet matched, the first registered one on
\* equal distance, if that distance is strictly below 100 px, and otherwise
\* becomes a new track; so no track receives two detections, no detection is
\* dropped and a track created by the call is never matched in the same call.
C23_GreedyNearestMatch ==
    [][(Len(ret'.detections) > 0 /\ DOMAIN objects # {}) =>
          LET detections == ret'.detections
              target == MatchTargets(objects, next_object_id, detections)
              created == {i \in 1..Len(detections) : target[i] \notin DOMAIN objects}
          IN  /\ \A i \in 1..Len(detections) :
                     /\ target[i] \in DOMAIN objects'
                     /\ objects'[target[i]] = detections[i]
                     /\ disappeared'[target[i]] = 0
              /\ \A i, j \in 1..Len(detections) : i # j => target[i] # target[j]
              /\ (DOMAIN objects') \ (DOMAIN objects) = {target[i] : i \in created}
              /\ next_object_id' = next_object_id + Cardinality(created)
      ]_vars

\* two tracks at equal distance from the first detection: it went to the first
\* registered one, and the second detection, nearest to that same track, went
\* to the other track
C23_Witness ==
    /\ ret.op = "tracker_update"
    /\ ret.detections = <<HumanBetween, HumanOnTrack>>
    /\ DOMAIN objects = {0, 1}
    /\ objects[0] = HumanBetween
    /\ objects[1] = HumanOnTrack
    /\ next_object_id = 2

\* ------------------------------------------------------------------------
\* Identity of steadily detected objects (SpecSteady)
\* ------------------------------------------------------------------------
\* C21: when every object is detected in every frame from its first appearance
\* on, moves less than the gating distance per frame and never comes within the
\* gating distance of another object's track, each object gets an id in the
\* frame of its first appearance, the ids are distinct and increase in the
\* order of first appearance, and each object keeps its id in every later frame.
C21_SteadyObjectsKeepIds ==
    /\ [](/\ \A id, other \in DOMAIN objects :
                 id # other => ~SameObject(objects[id], objects[other])
          /\ DOMAIN objects = Range(issued)
          /\ StrictlyIncreasing(issued))
    /\ [][LET frame == ret'.detections
              IdOf(i) == CHOOSE id \in DOMAIN objects' : objects'[id] = frame[i]
              new == {i \in 1..Len(frame) :
                         \A id \in DOMAIN objects : ~SameObject(frame[i], objects[id])}
          IN  /\ \A i \in 1..Len(frame) :
                     \E id \in DOMAIN objects' : objects'[id] = frame[i]
              /\ \A id \in DOMAIN objects :
                     /\ id \in DOMAIN objects'
                     /\ SameObject(objects'[id], objects[id])
              /\ \A i \in new : IdOf(i) \notin Range(issued)
              /\ \A i, j \in new : i < j => IdOf(i) < IdOf(j)
         ]_vars

\* the vehicle appeared first and has id 0, the human appeared in a later
\* frame and has id 1; the human has moved 60 px and is listed before the
\* vehicle in this frame, and both kept their ids
C21_Witness ==
    /\ ret.op = "tracker_update"
    /\ ret.detections = <<HumanMoved, VehicleOnTrack>>
    /\ DOMAIN objects = {0, 1}
    /\ objects[0] = VehicleOnTrack
    /\ objects[1] = HumanMoved

\* ------------------------------------------------------------------------
\* Properties of MultiFrameConfirmation under all of its operations
\* (SpecConfirm)
\* ------------------------------------------------------------------------
\* the ids whose history entry carries the confirmed flag
Flagged == {id \in DOMAIN obstacle_history : obstacle_history[id].confirmed}

\* C24: once an obstacle is confirmed, its history entry keeps the confirmed
\* flag and it stays in confirmed_obstacles and in the list of
\* get_all_confirmed in every later state, also when a later update finds the
\* gap test failing, until the entry is removed by the inactivity purge or by
\* reset.
C24_ConfirmedIsSticky ==
    /\ [][\A id \in Flagged :
              id \in DOMAIN obstacle_history' =>
                  /\ obstacle_history'[id].confirmed
                  /\ id \in DOMAIN confirmed_obstacles'
                  /\ ret'.op = "get_all_confirmed" =>
                         \E i \in 1..Len(ret'.confirmed) :
                             ret'.confirmed[i].info.object_id = id
         ]_vars
    /\ [][\A id \in Flagged :
              id \notin DOMAIN obstacle_history' =>
                  \/ ret'.op = "reset"
                  \/ /\ ret'.op = "mfc_update"
                     /\ now' - obstacle_history[id].last_seen > CleanupTimeout
         ]_vars

\* get_all_confirmed lists a confirmed obstacle whose latest appearance came
\* after an absence of more than max_frame_gap frames, so that the gap test of
\* that update failed
C24_Witness ==
    /\ ret.op = "get_all_confirmed"
    /\ \E i \in 1..Len(ret.confirmed) :
           LET id == ret.confirmed[i].info.object_id
               detections == obstacle_history[id].detections
           IN  /\ obstacle_history[id].confirmed
               /\ ~should_confirm(obstacle_history[id])
               /\ detections[Len(detections)].frame = frame_count
               /\ detections[Len(detections)].frame
                      - detections[Len(detections) - 1].frame - 1 > max_frame_gap

C25_HistoriesBounded ==
    /\ [](\A id \in DOMAIN obstacle_history :
              LET h == obstacle_history[id]
              IN  /\ Len(h.detections) <= min_consecutive_frames + max_frame_gap
                  /\ \A i, j \in 1..Len(h.detections) :
                         i < j => h.detections[i].frame < h.detections[j].frame
                  /\ Len(h.positions) <= 10)
    /\ [][\A id \in (DOMAIN obstacle_history) \cap (DOMAIN obstacle_history') :
              LET old == obstacle_history[id].detections
                  new == obstacle_history'[id].detections
              IN  IF id \in DOMAIN ret'.tracked_objects
                  THEN /\ new[Len(new)].frame = frame_count'
                       /\ IF Len(old) = min_consecutive_frames + max_frame_gap
                          THEN /\ Len(new) = Len(old)
                               /\ \A i \in 1..(Len(old) - 1) : new[i] = old[i + 1]
                          ELSE /\ Len(new) = Len(old) + 1
                               /\ \A i \in 1..Len(old) : new[i] = old[i]
                  ELSE new = old
         ]_vars

\* a track whose detection history is full and has lost its first three
\* entries, and whose position history has lost its first entry
C25_Witness ==
    /\ ret.op = "mfc_update"
    /\ \E id \in DOMAIN obstacle_history :
           LET h == obstacle_history[id]
           IN  /\ Len(h.detections) = min_consecutive_frames + max_frame_gap
               /\ Len(h.positions) = 10
               /\ h.detections[1].frame = 4
               /\ h.detections[Len(h.detections)].frame = 11

\* ------------------------------------------------------------------------
\* Lifecycles of tracks and of confirmation entries (SpecLife)
\* ------------------------------------------------------------------------
\* the entries the update at time t removes: the ones not tracked in the call
\* whose last_seen lies more than 10 s before t
Purged(tracked, t) ==
    {id \in (DOMAIN obstacle_history) \ tracked : t - obstacle_history[id].last_seen > 10}

\* C26: the two lifecycles are independent. A track the Tracker deregisters
\* keeps its Confirmation history entry and its confirmed status; at the end of
\* every MultiFrameConfirmation.update exactly the entries whose last_seen is
\* more than 10 s before the call's current time are removed, from
\* obstacle_history and from confirmed_obstacles, and every other entry is kept.
C26_PurgeByInactivityOnly ==
    [][LET tracked == DOMAIN objects'
           gone == Purged(tracked, now')
       IN  /\ DOMAIN obstacle_history' = ((DOMAIN obstacle_history) \cup tracked) \ gone
           /\ (DOMAIN confirmed_obstacles) \ gone \subseteq DOMAIN confirmed_obstacles'
           /\ (DOMAIN confirmed_obstacles') \cap gone = {}
           /\ \A id \in (DOMAIN obstacle_history) \ gone :
                  obstacle_history[id].confirmed => obstacle_history'[id].confirmed
           /\ \A id \in (DOMAIN objects) \ (DOMAIN objects') :
                  id \in DOMAIN obstacle_history => id \in DOMAIN obstacle_history'
      ]_vars

\* the track of a confirmed obstacle was deregistered, its entry was last seen
\* exactly 10 s ago and is still on record as confirmed, while the entry of
\* another obstacle, last seen longer ago, has been removed
C26_Witness ==
    /\ ret.op = "track_and_confirm"
    /\ \E id \in DOMAIN confirmed_obstacles :
           /\ id \notin DOMAIN objects
           /\ obstacle_history[id].confirmed
           /\ now - obstacle_history[id].last_seen = 10
    /\ \E id \in Range(issued) : id \notin DOMAIN obstacle_history

\* ------------------------------------------------------------------------
\* Configuration values after construction (SpecEstimator)
\* ------------------------------------------------------------------------
\* C22: after construction no operation other than calibrate_focal_length
\* changes a configuration value: the focal length, the train speed and the
\* TTC thresholds are after every other call what they were before it.
C22_OnlyCalibrationChangesConfig ==
    [][ret'.op # "calibrate_focal_length" =>
           /\ distance_estimator' = distance_estimator
           /\ ttc_critical' = ttc_critical
      ]_vars

\* ------------------------------------------------------------------------
\* Alert history of AlertManager (SpecAlert)
\* ------------------------------------------------------------------------
\* C28: a send_alert call appends exactly one entry to alert_history, whatever
\* the channel list of the severity, the default log_only included; so after
\* the first call of a manager total_alerts is 1.
C28_OneLogEntryPerCall ==
    ret.op = "send_alert" => Len(alert_log) = 1

\* ------------------------------------------------------------------------
\* Monotonicity of severity and risk score (SpecOrder)
\* ------------------------------------------------------------------------
\* C30: for a fixed class, zone and is_static, a lower ttc gives a severity
\* priority and a risk score that are not lower; for a fixed class, ttc and
\* is_static, the severity priority in the critical zone is at least the one
\* in the warning zone, which is at least the one in the safe zone.
C30_MonotoneInTtcAndZone ==
    ret.op = "classify_and_score" =>
        /\ ret.severity_priority[ret.input.lower_ttc] >= ret.severity_priority[ret.input.ttc]
        /\ ret.risk_score[ret.input.lower_ttc] >= ret.risk_score[ret.input.ttc]
        /\ ret.priority_in_zone["critical"] >= ret.priority_in_zone["warning"]
        /\ ret.priority_in_zone["warning"] >= ret.priority_in_zone["safe"]

\* a static animal in the critical zone: high at 45 s and critical just below
\* 20 s, with a higher risk score, and high, medium, low in the three zones
C30_Witness ==
    /\ ret.op = "classify_and_score"
    /\ ret.input.ttc = 4500
    /\ ret.input.lower_ttc = 1999
    /\ ret.severity_priority[1999] > ret.severity_priority[4500]
    /\ ret.risk_score[1999] > ret.risk_score[4500]
    /\ ret.priority_in_zone["critical"] > ret.priority_in_zone["warning"]
    /\ ret.priority_in_zone["warning"] > ret.priority_in_zone["safe"]

====
